---- MODULE Spec2Model ----
(***************************************************************************)
(* Verification model of the quant-modeling pricing library.               *)
(*                                                                         *)
(* The state machines of this module, each on its own variables:          *)
(*   Spec      a pricing call, through the registry                        *)
(*             (PricingRegistry::price) or by a direct                     *)
(*             price(instrument, engine) double dispatch;                  *)
(*   SpecLive  Spec with the fairness of a call that waits on nothing;     *)
(*   SpecMC    two Monte Carlo visits running concurrently, draw by draw;  *)
(*   SpecReg   threads racing on the first default_registry() call;        *)
(*   SpecTree  the backward induction of the two tree engines;             *)
(*   SpecCurve a tabulated discount curve and its interpolation;           *)
(*   SpecBond  the coupon loop of the fixed-rate bond visit;               *)
(*   SpecRng   the Pcg32 generator, construction and draws;                *)
(*   SpecPde   the terminal grids and time loops of the PDE visit;         *)
(*   SpecObj   the stored result of one engine object over its visits.     *)
(* Real-valued inputs are abstracted to small integers; every comparison   *)
(* the code makes on them (x > 0, n < 1, ...) is kept.                     *)
(***************************************************************************)
EXTENDS Integers, Sequences, FiniteSets, TLC

VARIABLES
    pc,        \* position of the pricing call: idle, received, factory, dispatch, done
    route,     \* "registry" (PricingRegistry::price) or "direct" (price(inst, engine))
    req,       \* the PricingRequest of a registry call
    inputRead, \* TRUE once std::get has read request.input
    eng,       \* the engine object the call owns: class, context, model fields read
    inst,      \* the instrument the call prices
    outcome,   \* terminal state of the call
    res,       \* the PricingResult the call returned
    mc,        \* SpecMC: the two Monte Carlo visits
    shared,    \* SpecMC: storage that would be shared if a generator were static
    reg,       \* SpecReg: the function-local static registry and its callers
    tree,      \* SpecTree: a European and an American tree valued side by side
    curve,     \* SpecCurve: a tabulated DiscountCurve and the last discount(t)
    bond,      \* SpecBond: the cash-flow loop of the fixed-rate bond visit
    gens,      \* SpecRng: two Pcg32 generators built from the same seed and stream
    pde,       \* SpecPde: the grids of the PDE engine's base and bumped runs
    obj        \* SpecObj: one engine object visited several times

vars == <<pc, route, req, inputRead, eng, inst, outcome, res, mc, shared, reg,
          tree, curve, bond, gens, pde, obj>>

callVars == <<pc, route, req, inputRead, eng, inst, outcome, res>>

\* The state of the specifications of the pure computations.
calcVars == <<tree, curve, bond, gens, pde, obj>>

(***************************************************************************)
(* Bounds of the model.                                                    *)
(***************************************************************************)
MaxSteps == 2   \* tree_steps, pde_space_steps, pde_time_steps range over 0..MaxSteps
MaxKnots == 2   \* longest discount_times / discount_factors vector
MaxPaths == 2   \* mc_paths ranges up to MaxPaths

\* Sample values standing for a Real: non-positive and positive.
RealVals == {0, 1}
\* Sample knot times of a tabulated curve.
TimeVals == {0, 1, 2}

(***************************************************************************)
(* registry.hpp: the three enums of a RegistryKey and the input variant.   *)
(***************************************************************************)
InstrumentKind == {"EquityVanillaOption", "EquityAmericanVanillaOption",
                   "EquityAsianOption", "EquityFuture", "ZeroCouponBond",
                   "FixedRateBond"}

ModelKind == {"BlackScholes", "FlatRate"}

EngineKind == {"Analytic", "MonteCarlo", "BinomialTree", "TrinomialTree",
               "PDEFiniteDifference"}

\* The alternatives of std::variant PricingInput.
InputShape == {"VanillaBSInput", "AmericanVanillaBSInput", "AsianBSInput",
               "EquityFutureInput", "ZeroCouponBondInput", "FixedRateBondInput"}

RegistryKey == [instrument : InstrumentKind, model : ModelKind, engine : EngineKind]

Key(i, m, e) == [instrument |-> i, model |-> m, engine |-> e]

AsianAverageType == {"Arithmetic", "Geometric"}

(***************************************************************************)
(* inputs.hpp: the input records.  One record type carries every field;    *)
(* a field a shape does not have keeps its default.  Fields that never     *)
(* reach a comparison on the pricing path (spot, rate, dividend, vol,      *)
(* is_call, seed, n_paths) are not varied here; SpecMC varies the Monte    *)
(* Carlo ones.                                                             *)
(***************************************************************************)
InputDefaults ==
    [shape |-> "VanillaBSInput", strike |-> 1, maturity |-> 1, notional |-> 1,
     n_paths |-> 0, tree_steps |-> 0, pde_space_steps |-> 0, pde_time_steps |-> 0,
     average_type |-> "Arithmetic", coupon_rate |-> 0, coupon_frequency |-> 1,
     discount_times |-> << >>, discount_factors |-> << >>]

StepVals == 0..MaxSteps

PathVals == 0..MaxPaths

\* Vectors of at most MaxKnots elements of S.
VecOf(S) == UNION {[1..n -> S] : n \in 0..MaxKnots}

VanillaBSInput ==
    {[InputDefaults EXCEPT !.shape = "VanillaBSInput", !.strike = k, !.maturity = t,
                           !.n_paths = np, !.tree_steps = n, !.pde_space_steps = ms,
                           !.pde_time_steps = ns] :
        k \in RealVals, t \in RealVals, np \in PathVals, n \in StepVals,
        ms \in StepVals, ns \in StepVals}

AmericanVanillaBSInput ==
    {[InputDefaults EXCEPT !.shape = "AmericanVanillaBSInput", !.strike = k, !.maturity = t,
                           !.tree_steps = n, !.pde_space_steps = ms, !.pde_time_steps = ns] :
        k \in RealVals, t \in RealVals, n \in StepVals, ms \in StepVals, ns \in StepVals}

AsianBSInput ==
    {[InputDefaults EXCEPT !.shape = "AsianBSInput", !.strike = k, !.maturity = t,
                           !.n_paths = np, !.average_type = a] :
        k \in RealVals, t \in RealVals, np \in PathVals, a \in AsianAverageType}

EquityFutureInput ==
    {[InputDefaults EXCEPT !.shape = "EquityFutureInput", !.strike = k, !.maturity = t,
                           !.notional = n] :
        k \in RealVals, t \in RealVals, n \in RealVals}

ZeroCouponBondInput ==
    {[InputDefaults EXCEPT !.shape = "ZeroCouponBondInput", !.maturity = t, !.notional = n,
                           !.discount_times = ts, !.discount_factors = ds] :
        t \in RealVals, n \in RealVals, ts \in VecOf(TimeVals), ds \in VecOf(RealVals)}

FixedRateBondInput ==
    {[InputDefaults EXCEPT !.shape = "FixedRateBondInput", !.maturity = t, !.notional = n,
                           !.coupon_rate = c, !.coupon_frequency = f,
                           !.discount_times = ts, !.discount_factors = ds] :
        t \in RealVals, n \in RealVals, c \in {-1, 0}, f \in {0, 1},
        ts \in VecOf(TimeVals), ds \in VecOf(RealVals)}

PricingInput ==
    VanillaBSInput \cup AmericanVanillaBSInput \cup AsianBSInput \cup
    EquityFutureInput \cup ZeroCouponBondInput \cup FixedRateBondInput

PricingRequest(k, in) == [key |-> k, input |-> in]

NoRequest == PricingRequest(Key("EquityVanillaOption", "BlackScholes", "Analytic"), InputDefaults)

(***************************************************************************)
(* registry.cpp: register_pricer, the thirteen registrations made by       *)
(* default_registry() in program order, and find.  A registered function   *)
(* is kept as the input shape its lambda std::get's and the adapter it     *)
(* calls; every lambda passes its own key's engine kind on.                *)
(***************************************************************************)
PricingFn(k, shape, adapter) == [key |-> k, shape |-> shape, adapter |-> adapter]

Registrations ==
    << PricingFn(Key("EquityVanillaOption", "BlackScholes", "Analytic"),
                 "VanillaBSInput", "price_equity_vanilla_bs"),
       PricingFn(Key("EquityVanillaOption", "BlackScholes", "MonteCarlo"),
                 "VanillaBSInput", "price_equity_vanilla_bs"),
       PricingFn(Key("EquityVanillaOption", "BlackScholes", "PDEFiniteDifference"),
                 "VanillaBSInput", "price_equity_vanilla_bs"),
       PricingFn(Key("EquityVanillaOption", "BlackScholes", "BinomialTree"),
                 "VanillaBSInput", "price_equity_vanilla_bs"),
       PricingFn(Key("EquityVanillaOption", "BlackScholes", "TrinomialTree"),
                 "VanillaBSInput", "price_equity_vanilla_bs"),
       PricingFn(Key("EquityAmericanVanillaOption", "BlackScholes", "BinomialTree"),
                 "AmericanVanillaBSInput", "price_equity_vanilla_american_bs"),
       PricingFn(Key("EquityAmericanVanillaOption", "BlackScholes", "TrinomialTree"),
                 "AmericanVanillaBSInput", "price_equity_vanilla_american_bs"),
       PricingFn(Key("EquityAmericanVanillaOption", "BlackScholes", "PDEFiniteDifference"),
                 "AmericanVanillaBSInput", "price_equity_vanilla_american_bs"),
       PricingFn(Key("EquityAsianOption", "BlackScholes", "Analytic"),
                 "AsianBSInput", "price_equity_asian_bs"),
       PricingFn(Key("EquityAsianOption", "BlackScholes", "MonteCarlo"),
                 "AsianBSInput", "price_equity_asian_bs"),
       PricingFn(Key("EquityFuture", "BlackScholes", "Analytic"),
                 "EquityFutureInput", "price_equity_future_bs"),
       PricingFn(Key("ZeroCouponBond", "FlatRate", "Analytic"),
                 "ZeroCouponBondInput", "price_zero_coupon_bond_flat"),
       PricingFn(Key("FixedRateBond", "FlatRate", "Analytic"),
                 "FixedRateBondInput", "price_fixed_rate_bond_flat") >>

\* registry_[key] = fn: the entry of that key is replaced or inserted.
register_pricer(r, fn) == {e \in r : e.key # fn.key} \cup {fn}

RECURSIVE RegisterFirst(_)
RegisterFirst(n) ==
    IF n = 0 THEN {} ELSE register_pricer(RegisterFirst(n - 1), Registrations[n])

\* The value of the static registry once its initialiser has run.
default_registry == RegisterFirst(Len(Registrations))

\* A find whose key equality forgets the model: the lookup that would let a
\* triple registered under another model through.
RegistryFind_IgnoreModel(r, k) ==
    {e \in r : e.key.instrument = k.instrument /\ e.key.engine = k.engine}

\* registry_.find(key): the entries with an equal key (operator== compares the
\* three enums), empty when the iterator is end().
RegistryFind(r, k) == {e \in r : e.key = k}

(***************************************************************************)
(* Models and the capability check (models/*.hpp, engines/base.hpp).       *)
(* Bases(m) is the set of interfaces the concrete model class derives      *)
(* from, as its struct declaration says; dynamic_cast<const I *> succeeds  *)
(* exactly for these.                                                      *)
(***************************************************************************)
\* LocalVolImpl stands for a class of the caller that derives ILocalVolModel
\* (local_vol_model.hpp invites one; the library itself defines none), null
\* for an empty shared_ptr.
ModelClass == {"BlackScholesModel", "FlatRateModel", "LocalVolImpl", "null"}

ModelIface == {"IModel", "IBlackScholesModel", "ILocalVolModel", "IFlatRateModel"}

\* struct BlackScholesModel final : public IBlackScholesModel
\* struct FlatRateModel final : public IFlatRateModel
Bases(m) ==
    CASE m = "BlackScholesModel" -> {"IModel", "IBlackScholesModel"}
      [] m = "FlatRateModel"     -> {"IModel", "IFlatRateModel"}
      [] m = "LocalVolImpl"      -> {"IModel", "ILocalVolModel"}
      [] OTHER                   -> {}

\* require_model<ModelIface>: dynamic_cast, InvalidInput on a null result.
require_model(iface, m) == IF iface \in Bases(m) THEN "ok" ELSE "InvalidInput"

(***************************************************************************)
(* Engines.  A context keeps what the engines compare: the model object,   *)
(* the step counts and whether a discount curve is attached.               *)
(***************************************************************************)
EngineClass ==
    {"BSEuroVanillaAnalyticEngine", "BSEuroVanillaMCEngine", "PDEEuropeanVanillaEngine",
     "BinomialVanillaEngine", "TrinomialVanillaEngine",
     "BSEuroArithmeticAsianAnalyticEngine", "BSEuroGeometricAsianAnalyticEngine",
     "BSEuroAsianMCEngine", "BSEquityFutureAnalyticEngine", "FlatRateBondAnalyticEngine"}

PricingContext(m, n, ms, ns, dc) ==
    [model |-> m, mc_paths |-> 0, tree_steps |-> n, pde_space_steps |-> ms,
     pde_time_steps |-> ns, discount |-> dc]

\* The context with settings.mc_paths set (PricingSettings defaults it to 0).
WithPaths(ctx, np) == [ctx EXCEPT !.mc_paths = np]

\* The constructor of an engine class: EngineBase rejects a null model, the
\* tree and PDE engines then check the step counts they copy from the settings.
EngineCtor(cls, ctx) ==
    IF ctx.model = "null" THEN "InvalidInput"
    ELSE IF cls \in {"BinomialVanillaEngine", "TrinomialVanillaEngine"}
              /\ ctx.tree_steps < 1 THEN "InvalidInput"
    ELSE IF cls = "PDEEuropeanVanillaEngine" /\ ctx.pde_space_steps < 2 THEN "InvalidInput"
    ELSE IF cls = "PDEEuropeanVanillaEngine" /\ ctx.pde_time_steps < 1 THEN "InvalidInput"
    ELSE "ok"

\* The interface each pricing visit asks require_model for.  The analytic
\* vanilla engine is defined twice: inline in black_scholes.hpp (def = "hpp")
\* and out of line in black_scholes.cpp (def = "cpp"); a build holds one.
RequiredIface(cls, def) ==
    CASE cls = "BSEuroVanillaAnalyticEngine" ->
             IF def = "hpp" THEN "IBlackScholesModel" ELSE "ILocalVolModel"
      [] cls \in {"BSEuroVanillaMCEngine", "PDEEuropeanVanillaEngine",
                  "BinomialVanillaEngine", "TrinomialVanillaEngine",
                  "BSEquityFutureAnalyticEngine"} -> "ILocalVolModel"
      [] cls \in {"BSEuroArithmeticAsianAnalyticEngine",
                  "BSEuroGeometricAsianAnalyticEngine",
                  "BSEuroAsianMCEngine"} -> "IBlackScholesModel"
      [] OTHER -> "IFlatRateModel"

(***************************************************************************)
(* Instruments (instruments/*.hpp).  accept selects visit(variant).        *)
(***************************************************************************)
Variant == {"VanillaOption", "AsianOption", "EquityFuture", "ZeroCouponBond",
            "FixedRateBond"}

ExerciseType == {"European", "American"}

Instrument(v, hasPayoff, hasExercise, ex, t, k, n, avg, c, f) ==
    [variant |-> v, payoff |-> hasPayoff, exercise |-> hasExercise,
     exercise_type |-> ex, maturity |-> t, strike |-> k, notional |-> n,
     average_type |-> avg, coupon_rate |-> c, coupon_frequency |-> f]

VanillaOption(hasPayoff, hasExercise, ex, t, k, n) ==
    Instrument("VanillaOption", hasPayoff, hasExercise, ex, t, k, n, "Arithmetic", 0, 1)

AsianOption(hasPayoff, hasExercise, ex, t, k, avg, n) ==
    Instrument("AsianOption", hasPayoff, hasExercise, ex, t, k, n, avg, 0, 1)

EquityFuture(k, t, n) ==
    Instrument("EquityFuture", FALSE, FALSE, "European", t, k, n, "Arithmetic", 0, 1)

ZeroCouponBond(t, n) ==
    Instrument("ZeroCouponBond", FALSE, FALSE, "European", t, 1, n, "Arithmetic", 0, 1)

FixedRateBond(c, t, f, n) ==
    Instrument("FixedRateBond", FALSE, FALSE, "European", t, 1, n, "Arithmetic", c, f)

NoInstrument == ZeroCouponBond(1, 1)

(***************************************************************************)
(* The visitor table: what each engine class has for visit(variant).       *)
(*   prices       a pricing operation, defined                             *)
(*   unsupported  an override that throws UnsupportedInstrument            *)
(*   declared     an override declared in the class and defined nowhere    *)
(*   absent       no override: the pure virtual of IInstrumentVisitor      *)
(***************************************************************************)
VisitImpl(cls, def, v) ==
    CASE cls = "BSEuroVanillaAnalyticEngine" ->
             IF v = "VanillaOption" THEN "prices"
             ELSE IF def = "hpp" THEN "absent" ELSE "unsupported"
      [] cls \in {"BSEuroVanillaMCEngine", "PDEEuropeanVanillaEngine",
                  "BinomialVanillaEngine", "TrinomialVanillaEngine"} ->
             IF v = "VanillaOption" THEN "prices" ELSE "unsupported"
      [] cls \in {"BSEuroArithmeticAsianAnalyticEngine",
                  "BSEuroGeometricAsianAnalyticEngine"} ->
             IF v = "AsianOption" THEN "prices"
             ELSE IF v = "EquityFuture" THEN "declared" ELSE "unsupported"
      [] cls = "BSEuroAsianMCEngine" ->
             IF v = "AsianOption" THEN "prices"
             ELSE IF v = "VanillaOption" THEN "unsupported" ELSE "absent"
      [] cls = "BSEquityFutureAnalyticEngine" ->
             IF v = "EquityFuture" THEN "prices" ELSE "unsupported"
      [] OTHER ->
             IF v \in {"ZeroCouponBond", "FixedRateBond"} THEN "prices" ELSE "unsupported"

\* validate(instrument) of the engine class that prices the variant: the
\* checks in source order, the first failing one decides.
validate(cls, i) ==
    CASE cls \in {"BSEuroVanillaAnalyticEngine", "BSEuroVanillaMCEngine",
                  "PDEEuropeanVanillaEngine"} ->
             IF ~i.payoff THEN "InvalidInput"
             ELSE IF ~i.exercise THEN "InvalidInput"
             ELSE IF i.exercise_type # "European" THEN "UnsupportedInstrument"
             ELSE IF ~(i.maturity > 0) THEN "InvalidInput"
             ELSE IF ~(i.notional > 0) THEN "InvalidInput"
             ELSE IF ~(i.strike > 0) THEN "InvalidInput"
             ELSE "ok"
      [] cls \in {"BinomialVanillaEngine", "TrinomialVanillaEngine"} ->
             IF ~i.payoff THEN "InvalidInput"
             ELSE IF ~i.exercise THEN "InvalidInput"
             ELSE IF ~(i.maturity > 0) THEN "InvalidInput"
             ELSE IF ~(i.notional > 0) THEN "InvalidInput"
             ELSE IF ~(i.strike > 0) THEN "InvalidInput"
             ELSE "ok"
      [] cls \in {"BSEuroArithmeticAsianAnalyticEngine",
                  "BSEuroGeometricAsianAnalyticEngine", "BSEuroAsianMCEngine"} ->
             IF ~i.payoff THEN "InvalidInput"
             ELSE IF ~i.exercise THEN "InvalidInput"
             ELSE IF i.exercise_type # "European" THEN "UnsupportedInstrument"
             ELSE "ok"
      [] cls = "BSEquityFutureAnalyticEngine" ->
             IF ~(i.maturity > 0) THEN "InvalidInput"
             ELSE IF ~(i.notional # 0) THEN "InvalidInput"
             ELSE IF ~(i.strike > 0) THEN "InvalidInput"
             ELSE "ok"
      [] OTHER ->
             IF ~(i.maturity > 0) THEN "InvalidInput"
             ELSE IF ~(i.notional # 0) THEN "InvalidInput"
             ELSE IF i.variant = "FixedRateBond" /\ ~(i.coupon_rate >= 0) THEN "InvalidInput"
             ELSE IF i.variant = "FixedRateBond" /\ i.coupon_frequency < 1 THEN "InvalidInput"
             ELSE "ok"

\* inst.accept(engine): the visit selected by the variant.  A pricing visit
\* validates, then asks for its model interface, then values and stores res_.
\* A visit with no definition cannot be run: the outcome is no typed error.
visit(cls, def, ctx, i) ==
    LET impl == VisitImpl(cls, def, i.variant) IN
    CASE impl = "unsupported" -> "UnsupportedInstrument"
      [] impl \in {"declared", "absent"} -> "no_implementation"
      [] OTHER ->
           IF validate(cls, i) # "ok" THEN validate(cls, i)
           ELSE IF require_model(RequiredIface(cls, def), ctx.model) # "ok"
                THEN require_model(RequiredIface(cls, def), ctx.model)
           ELSE "Success"

(***************************************************************************)
(* results.hpp: PricingResult and Greeks.  A Real of a result is kept as   *)
(* what the result contract distinguishes: "zero" (0.0), "nonzero", "nan", *)
(* and for the NPV which formula produced it; a std::optional<Real> is     *)
(* "absent" when empty.                                                    *)
(***************************************************************************)
GreekNames == {"delta", "gamma", "vega", "theta", "rho"}

\* The member holding the standard error of Greek g.
StdErrorField(g) ==
    CASE g = "delta" -> "delta_std_error"
      [] g = "gamma" -> "gamma_std_error"
      [] g = "vega"  -> "vega_std_error"
      [] g = "theta" -> "theta_std_error"
      [] OTHER       -> "rho_std_error"

GreekFields == GreekNames \cup {StdErrorField(g) : g \in GreekNames}

\* A Greeks whose members were all assigned 0.0 instead of being left empty.
NoGreeks_Zeroed == [f \in GreekFields |-> "zero"]

\* A default-constructed Greeks: the ten optionals are empty.
NoGreeks == [f \in GreekFields |-> "absent"]

\* out.greeks.f = v for every member f of fields.
SetGreeks(g, fields, v) == [f \in GreekFields |-> IF f \in fields THEN v ELSE g[f]]

PricingResult(npv, greeks, err) == [npv |-> npv, greeks |-> greeks, mc_std_error |-> err]

\* `Real mc_std_error;` has no initialiser and `PricingResult out;` default-
\* initialises: until it is assigned the member holds an indeterminate value.
IndeterminateReal == {"zero", "nonzero", "nan"}

\* No result: the call has not returned one (it is running, or it threw).
NotReturned == PricingResult("none", NoGreeks, "none")

\* The fields of the Black-Scholes model a visit reads through m.spot0() and
\* m.vol_sigma(), by sign as RealVals.
ModelParams == [spot : RealVals, vol : RealVals]

\* The model fields of an engine whose visits have read none.
NotRead == [spot |-> 0 - 1, vol |-> 0 - 1]

\* The test of the risk-neutral probabilities in the two tree visits
\* (binomial.cpp:42, trinomial.cpp:49), by the volatility read.  With
\* sigma = 0 the binomial u - d is 0 and p = (a - d) / (u - d) is +-inf or
\* NaN; the trinomial dx is 0 and pu, pd are +-inf or NaN: !(p >= 0 && p <= 1)
\* is true and the visit throws.  With sigma > 0 the probabilities lie inside
\* or outside [0, 1] according to the rate, the dividend yield and dt.
ProbabilitiesInBounds(m) == IF m.vol > 0 THEN {TRUE, FALSE} ELSE {FALSE}

\* What the part of a pricing visit after validate and require_model ends
\* in: the tree visits throw InvalidInput when the probability test fails,
\* no other visit has a throw statement after its validation.
Valuation(cls, m) ==
    IF cls \in {"BinomialVanillaEngine", "TrinomialVanillaEngine"}
    THEN {IF ok THEN "Success" ELSE "InvalidInput" : ok \in ProbabilitiesInBounds(m)}
    ELSE {"Success"}

\* What a closed form or an estimator yields: a number, or possibly NaN when
\* it divides by a zero total volatility or takes the logarithm of a
\* non-positive ratio.
Numbers(i, m) ==
    IF m.spot > 0 /\ m.vol > 0 /\ i.strike > 0 /\ i.maturity > 0
    THEN {"value"} ELSE {"value", "nan"}

\* out.mc_std_error of a Monte Carlo visit: 0.0 unless more than one sample
\* was pushed (n > 1), else disc * sqrt(varMean).
McStdError(ctx, v) ==
    IF v = "nan" THEN {"nan"}
    ELSE IF ctx.mc_paths > 1 THEN {"zero", "nonzero"}
    ELSE {"zero"}

\* BSEuroVanillaAnalyticEngine::visit(VanillaOption): npv and the five Greeks.
AnalyticVanillaResults(i, m) ==
    {PricingResult(v, SetGreeks(NoGreeks, GreekNames, v), e) :
        v \in Numbers(i, m), e \in IndeterminateReal}

\* The two Monte Carlo visits: npv, mc_std_error, five Greeks and their five
\* standard errors, all assigned unconditionally.
MonteCarloResults(ctx, i, m) ==
    UNION {{PricingResult(v, SetGreeks(SetGreeks(NoGreeks, GreekNames, v),
                                       GreekFields \ GreekNames,
                                       IF v = "nan" THEN "nan" ELSE "value"), e) :
               e \in McStdError(ctx, v)} : v \in Numbers(i, m)}

\* PDEEuropeanVanillaEngine::visit(VanillaOption): npv, delta and gamma.
PdeResults(i, m) ==
    {PricingResult(v, SetGreeks(NoGreeks, {"delta", "gamma"}, v), e) :
        v \in Numbers(i, m), e \in IndeterminateReal}

\* The two tree visits: npv, delta, gamma, vega, and theta if (steps_ > 1).
TreeResults(ctx, i, m) ==
    {PricingResult(v, SetGreeks(NoGreeks,
                                IF ctx.tree_steps > 1
                                THEN {"delta", "gamma", "vega", "theta"}
                                ELSE {"delta", "gamma", "vega"}, v), e) :
        v \in Numbers(i, m), e \in IndeterminateReal}

\* BSEuroArithmeticAsianAnalyticEngine::visit(AsianOption).  Line 33 returns
\* notional * intrinsic with no Greeks; lines 58, 79 and 105 return the
\* discounted intrinsic value with no Greeks (zero volatility, or a moment
\* match that degenerates); otherwise the npv and the five Greeks are set.
ArithmeticAsianResults(i, m) ==
    IF ~(m.spot > 0) \/ ~(i.strike > 0) \/ ~(i.maturity > 0)
    THEN {PricingResult("intrinsic", NoGreeks, e) : e \in IndeterminateReal}
    ELSE {PricingResult("discounted_intrinsic", NoGreeks, e) : e \in IndeterminateReal}
         \cup (IF m.vol > 0
               THEN {PricingResult("value", SetGreeks(NoGreeks, GreekNames, "value"), e) :
                        e \in IndeterminateReal}
               ELSE {})

\* BSEuroGeometricAsianAnalyticEngine::visit(AsianOption): no early return.
\* With T = 0 the total volatility stddev_G is 0: d1 is +-inf, or NaN when
\* F = K; gamma (0/0) and theta (0/0) are NaN in both cases and the npv is
\* the intrinsic value unless F = K.
GeometricAsianResults(i, m) ==
    IF ~(i.maturity > 0)
    THEN {PricingResult(v, SetGreeks(SetGreeks(NoGreeks, {"delta", "vega", "rho"},
                                               IF v = "nan" THEN "nan" ELSE "value"),
                                     {"gamma", "theta"}, "nan"), e) :
             v \in {"intrinsic", "nan"}, e \in IndeterminateReal}
    ELSE {PricingResult(v, SetGreeks(NoGreeks, GreekNames, v), e) :
             v \in Numbers(i, m), e \in IndeterminateReal}

\* BSEquityFutureAnalyticEngine::visit(EquityFuture) and the two bond visits:
\* the npv alone.
NpvOnlyResults == {PricingResult("value", NoGreeks, e) : e \in IndeterminateReal}

\* The results a pricing visit of engine class cls can store in res_ and
\* price() then returns, m being the model fields it read.
Results(cls, def, ctx, i, m) ==
    CASE cls = "BSEuroVanillaAnalyticEngine" -> AnalyticVanillaResults(i, m)
      [] cls \in {"BSEuroVanillaMCEngine", "BSEuroAsianMCEngine"} ->
             MonteCarloResults(ctx, i, m)
      [] cls = "PDEEuropeanVanillaEngine" -> PdeResults(i, m)
      [] cls \in {"BinomialVanillaEngine", "TrinomialVanillaEngine"} ->
             TreeResults(ctx, i, m)
      [] cls = "BSEuroArithmeticAsianAnalyticEngine" -> ArithmeticAsianResults(i, m)
      [] cls = "BSEuroGeometricAsianAnalyticEngine" -> GeometricAsianResults(i, m)
      [] OTHER -> NpvOnlyResults

(***************************************************************************)
(* discount_curve.cpp: DiscountCurve(times, dfs) runs validate_curve.      *)
(***************************************************************************)
validate_curve(ts, ds) ==
    IF Len(ts) = 0 \/ Len(ds) = 0 \/ Len(ts) # Len(ds) THEN "InvalidInput"
    ELSE IF ~(ts[1] > 0) THEN "InvalidInput"
    ELSE IF ~(ds[1] > 0) THEN "InvalidInput"
    ELSE IF \E i \in 2..Len(ts) : ~(ts[i] > ts[i - 1]) \/ ~(ds[i] > 0) THEN "InvalidInput"
    ELSE "ok"

(***************************************************************************)
(* The adapters (pricers/adapters/*.cpp).  Each yields what it throws      *)
(* before the engine exists, or the engine class, context and instrument   *)
(* it builds.                                                              *)
(***************************************************************************)
Built(cls, ctx, i) == [thrown |-> "none", cls |-> cls, ctx |-> ctx, inst |-> i]

NoContext == PricingContext("null", 0, 0, 0, "none")

Throws(x) == [thrown |-> x, cls |-> "FlatRateBondAnalyticEngine", ctx |-> NoContext,
              inst |-> NoInstrument]

price_equity_vanilla_bs(in, engine) ==
    LET opt == VanillaOption(TRUE, TRUE, "European", in.maturity, in.strike, 1)
        ctx == WithPaths(PricingContext("BlackScholesModel", in.tree_steps,
                                        in.pde_space_steps, in.pde_time_steps, "none"),
                         IF engine = "MonteCarlo" THEN in.n_paths ELSE 0)
    IN  CASE engine = "MonteCarlo"          -> Built("BSEuroVanillaMCEngine", ctx, opt)
          [] engine = "PDEFiniteDifference" -> Built("PDEEuropeanVanillaEngine", ctx, opt)
          [] engine = "BinomialTree"        -> Built("BinomialVanillaEngine", ctx, opt)
          [] engine = "TrinomialTree"       -> Built("TrinomialVanillaEngine", ctx, opt)
          [] OTHER                          -> Built("BSEuroVanillaAnalyticEngine", ctx, opt)

price_equity_vanilla_american_bs(in, engine) ==
    LET opt == VanillaOption(TRUE, TRUE, "American", in.maturity, in.strike, 1)
        ctx == PricingContext("BlackScholesModel", in.tree_steps, in.pde_space_steps,
                              in.pde_time_steps, "none")
    IN  CASE engine = "BinomialTree"        -> Built("BinomialVanillaEngine", ctx, opt)
          [] engine = "TrinomialTree"       -> Built("TrinomialVanillaEngine", ctx, opt)
          [] engine = "PDEFiniteDifference" -> Throws("UnsupportedInstrument")
          [] OTHER                          -> Throws("InvalidInput")

price_equity_asian_bs(in, engine) ==
    LET opt == AsianOption(TRUE, TRUE, "European", in.maturity, in.strike,
                           in.average_type, 1)
        ctx == WithPaths(PricingContext("BlackScholesModel", 0, 0, 0, "none"),
                         IF engine = "MonteCarlo" THEN in.n_paths ELSE 0)
    IN  IF engine = "MonteCarlo" THEN Built("BSEuroAsianMCEngine", ctx, opt)
        ELSE IF in.average_type = "Arithmetic"
             THEN Built("BSEuroArithmeticAsianAnalyticEngine", ctx, opt)
        ELSE Built("BSEuroGeometricAsianAnalyticEngine", ctx, opt)

price_equity_future_bs(in) ==
    Built("BSEquityFutureAnalyticEngine", PricingContext("BlackScholesModel", 0, 0, 0, "none"),
          EquityFuture(in.strike, in.maturity, in.notional))

\* A curve choice that takes the table only when both vectors are given and
\* otherwise falls back to the flat rate.
BondCurve_BothGiven(in) ==
    IF Len(in.discount_times) # 0 /\ Len(in.discount_factors) # 0
    THEN IF validate_curve(in.discount_times, in.discount_factors) = "ok"
         THEN "table" ELSE "InvalidInput"
    ELSE "flat"

\* Both bond adapters build the curve the same way: tabulated as soon as one
\* of the two vectors is non-empty, flat otherwise.
BondCurve(in) ==
    IF Len(in.discount_times) # 0 \/ Len(in.discount_factors) # 0
    THEN IF validate_curve(in.discount_times, in.discount_factors) = "ok"
         THEN "table" ELSE "InvalidInput"
    ELSE "flat"

price_zero_coupon_bond_flat(in) ==
    IF BondCurve(in) = "InvalidInput" THEN Throws("InvalidInput")
    ELSE Built("FlatRateBondAnalyticEngine",
               PricingContext("FlatRateModel", 0, 0, 0, BondCurve(in)),
               ZeroCouponBond(in.maturity, in.notional))

price_fixed_rate_bond_flat(in) ==
    IF BondCurve(in) = "InvalidInput" THEN Throws("InvalidInput")
    ELSE Built("FlatRateBondAnalyticEngine",
               PricingContext("FlatRateModel", 0, 0, 0, BondCurve(in)),
               FixedRateBond(in.coupon_rate, in.maturity, in.coupon_frequency, in.notional))

\* The body of a registered lambda once std::get has succeeded.
CallAdapter(fn, in) ==
    CASE fn.adapter = "price_equity_vanilla_bs" -> price_equity_vanilla_bs(in, fn.key.engine)
      [] fn.adapter = "price_equity_vanilla_american_bs" ->
             price_equity_vanilla_american_bs(in, fn.key.engine)
      [] fn.adapter = "price_equity_asian_bs" -> price_equity_asian_bs(in, fn.key.engine)
      [] fn.adapter = "price_equity_future_bs" -> price_equity_future_bs(in)
      [] fn.adapter = "price_zero_coupon_bond_flat" -> price_zero_coupon_bond_flat(in)
      [] OTHER -> price_fixed_rate_bond_flat(in)

\* std::get<Shape>(request.input): std::bad_variant_access when the variant
\* holds another alternative.
StdGet(shape, in) == IF in.shape = shape THEN "ok" ELSE "bad_variant_access"

\* The definitions of an engine class a build may hold.
Defs(cls) == IF cls = "BSEuroVanillaAnalyticEngine" THEN {"hpp", "cpp"} ELSE {"cpp"}

\* An engine object: its class, the definition the build holds, its context,
\* and the model fields its last visit read (NotRead before any read).
Engine(cls, def, ctx) == [cls |-> cls, def |-> def, ctx |-> ctx, read |-> NotRead]

NoEngine == Engine("FlatRateBondAnalyticEngine", "cpp", NoContext)

(***************************************************************************)
(* Spec: one pricing call at a time.                                       *)
(*   registry route: Submit, Lookup, Factory, Dispatch, Return             *)
(*   direct route:   Construct, Dispatch, Return                           *)
(***************************************************************************)
Unused == "unused"

CallIdle ==
    /\ pc = "idle"
    /\ route = "none"
    /\ req = NoRequest
    /\ inputRead = FALSE
    /\ eng = NoEngine
    /\ inst = NoInstrument
    /\ outcome = "none"
    /\ res = NotReturned

\* The variables of the pure computations while no such computation runs.
CalcUnused ==
    /\ tree = Unused
    /\ curve = Unused
    /\ bond = Unused
    /\ gens = Unused
    /\ pde = Unused
    /\ obj = Unused

Init ==
    /\ CallIdle
    /\ mc = Unused
    /\ shared = Unused
    /\ reg = Unused
    /\ CalcUnused

\* The caller builds a PricingRequest and calls default_registry().price.
Submit ==
    /\ pc = "idle"
    /\ \E k \in RegistryKey, in \in PricingInput : req' = PricingRequest(k, in)
    /\ route' = "registry"
    /\ pc' = "received"
    /\ UNCHANGED <<inputRead, eng, inst, outcome, res, mc, shared, reg, calcVars>>

\* PricingRegistry::price, lines 27-32: find, throw when it is end().
Lookup ==
    /\ pc = "received"
    /\ IF RegistryFind(default_registry, req.key) = {}
       THEN pc' = "done" /\ outcome' = "UnsupportedInstrument"
       ELSE pc' = "factory" /\ outcome' = outcome
    /\ UNCHANGED <<route, req, inputRead, eng, inst, res, mc, shared, reg, calcVars>>

\* PricingRegistry::price, line 33: the registered lambda runs std::get, the
\* adapter and the engine's constructor.
Factory ==
    /\ pc = "factory"
    /\ inputRead' = TRUE
    /\ LET fn  == CHOOSE e \in RegistryFind(default_registry, req.key) : TRUE
           got == StdGet(fn.shape, req.input)
           a   == CallAdapter(fn, req.input)
       IN  IF got # "ok"
           THEN pc' = "done" /\ outcome' = got /\ UNCHANGED <<eng, inst>>
           ELSE IF a.thrown # "none"
           THEN pc' = "done" /\ outcome' = a.thrown /\ UNCHANGED <<eng, inst>>
           ELSE IF EngineCtor(a.cls, a.ctx) # "ok"
           THEN pc' = "done" /\ outcome' = EngineCtor(a.cls, a.ctx) /\ UNCHANGED <<eng, inst>>
           ELSE /\ \E def \in Defs(a.cls) : eng' = Engine(a.cls, def, a.ctx)
                /\ inst' = a.inst
                /\ pc' = "dispatch"
                /\ outcome' = outcome
    /\ UNCHANGED <<route, req, res, mc, shared, reg, calcVars>>

\* The contexts a caller of the library can hand to an engine class; the
\* settings an engine class never reads stay 0.
DirectContexts(cls) ==
    CASE cls \in {"BinomialVanillaEngine", "TrinomialVanillaEngine"} ->
             {PricingContext(m, n, 0, 0, "none") : m \in ModelClass, n \in StepVals}
      [] cls = "PDEEuropeanVanillaEngine" ->
             {PricingContext(m, 0, ms, ns, "none") :
                 m \in ModelClass, ms \in StepVals, ns \in StepVals}
      [] cls = "FlatRateBondAnalyticEngine" ->
             {PricingContext(m, 0, 0, 0, c) : m \in ModelClass, c \in {"none", "flat", "table"}}
      [] cls \in {"BSEuroVanillaMCEngine", "BSEuroAsianMCEngine"} ->
             {WithPaths(PricingContext(m, 0, 0, 0, "none"), np) :
                 m \in ModelClass, np \in PathVals}
      [] OTHER -> {PricingContext(m, 0, 0, 0, "none") : m \in ModelClass}

DirectInstruments ==
    {VanillaOption(p, e, x, t, k, n) :
        p \in BOOLEAN, e \in BOOLEAN, x \in ExerciseType,
        t \in RealVals, k \in RealVals, n \in RealVals}
    \cup {AsianOption(p, e, x, t, k, a, 1) :
        p \in BOOLEAN, e \in BOOLEAN, x \in ExerciseType,
        t \in RealVals, k \in RealVals, a \in AsianAverageType}
    \cup {EquityFuture(k, t, n) : k \in RealVals, t \in RealVals, n \in RealVals}
    \cup {ZeroCouponBond(t, n) : t \in RealVals, n \in RealVals}
    \cup {FixedRateBond(c, t, f, n) :
        c \in {-1, 0}, t \in RealVals, f \in {0, 1}, n \in RealVals}

\* A caller builds an instrument and an engine itself (as the tests and
\* main.cpp do) and calls price(inst, engine) of pricer.hpp.
Construct ==
    /\ pc = "idle"
    /\ \E cls \in EngineClass, i \in DirectInstruments :
         \E ctx \in DirectContexts(cls) :
            /\ inst' = i
            /\ IF EngineCtor(cls, ctx) # "ok"
               THEN pc' = "done" /\ outcome' = EngineCtor(cls, ctx) /\ eng' = eng
               ELSE /\ \E def \in Defs(cls) : eng' = Engine(cls, def, ctx)
                    /\ pc' = "dispatch"
                    /\ outcome' = outcome
    /\ route' = "direct"
    /\ UNCHANGED <<req, inputRead, res, mc, shared, reg, calcVars>>

\* price(inst, engine): inst.accept(engine), then engine.results().
Dispatch ==
    /\ pc = "dispatch"
    /\ IF visit(eng.cls, eng.def, eng.ctx, inst) = "Success"
       THEN \E m \in ModelParams :
                /\ eng' = [eng EXCEPT !.read = m]
                /\ outcome' \in Valuation(eng.cls, m)
                /\ IF outcome' = "Success"
                   THEN res' \in Results(eng.cls, eng.def, eng.ctx, inst, m)
                   ELSE res' = res
       ELSE /\ outcome' = visit(eng.cls, eng.def, eng.ctx, inst)
            /\ eng' = eng
            /\ res' = res
    /\ pc' = "done"
    /\ UNCHANGED <<route, req, inputRead, inst, mc, shared, reg, calcVars>>

\* The call has returned or thrown; its objects are destroyed.
Return ==
    /\ pc = "done"
    /\ pc' = "idle"
    /\ route' = "none"
    /\ req' = NoRequest
    /\ inputRead' = FALSE
    /\ eng' = NoEngine
    /\ inst' = NoInstrument
    /\ outcome' = "none"
    /\ res' = NotReturned
    /\ UNCHANGED <<mc, shared, reg, calcVars>>

Next == Submit \/ Lookup \/ Factory \/ Construct \/ Dispatch \/ Return

Spec == Init /\ [][Next]_vars

(***************************************************************************)
(* PricingRegistry::price as a function: the outcomes a request can end    *)
(* in on registry r (one per definition of the engine class a build holds).*)
(***************************************************************************)
PriceOutcomes(r, request) ==
    IF RegistryFind(r, request.key) = {} THEN {"UnsupportedInstrument"}
    ELSE LET fn == CHOOSE e \in RegistryFind(r, request.key) : TRUE
             a  == CallAdapter(fn, request.input)
         IN  IF StdGet(fn.shape, request.input) # "ok"
             THEN {StdGet(fn.shape, request.input)}
             ELSE IF a.thrown # "none" THEN {a.thrown}
             ELSE IF EngineCtor(a.cls, a.ctx) # "ok" THEN {EngineCtor(a.cls, a.ctx)}
             ELSE UNION {IF visit(a.cls, def, a.ctx, a.inst) = "Success"
                         THEN UNION {Valuation(a.cls, m) : m \in ModelParams}
                         ELSE {visit(a.cls, def, a.ctx, a.inst)} : def \in Defs(a.cls)}

\* The three observable terminal states of section 1 of the specification.
TerminalStates == {"Success", "InvalidInput", "UnsupportedInstrument"}

\* The triple of the request was never registered.
Unregistered(k) == \A n \in 1..Len(Registrations) : Registrations[n].key # k

\* The call reached inst.accept(engine).
Dispatched == pc = "done" /\ eng # NoEngine

(***************************************************************************)
(* C1.  Every call of default_registry().price(request), whatever the      *)
(* request and whatever the shape of its input, ends in Success,           *)
(* InvalidInput or UnsupportedInstrument.  The code lets                   *)
(* std::bad_variant_access escape when the input's shape is not the one    *)
(* the registered lambda std::get's.                                       *)
(***************************************************************************)
C1_OnlyThreeTerminalStates ==
    (pc = "done" /\ route = "registry") => outcome \in TerminalStates

(***************************************************************************)
(* C2.  A request whose triple was never registered ends in                *)
(* UnsupportedInstrument, and the lookup comes first: the input of such a  *)
(* request is never read or validated.                                     *)
(***************************************************************************)
C2_UnregisteredUnsupported ==
    (route = "registry" /\ Unregistered(req.key)) =>
        /\ ~inputRead
        /\ pc \in {"received", "done"}
        /\ eng = NoEngine
        /\ (pc = "done" => outcome = "UnsupportedInstrument")

\* An unregistered triple carrying an input that would be rejected, had it
\* been read: the call is over and the input was not looked at.
C2_Witness ==
    /\ pc = "done"
    /\ route = "registry"
    /\ Unregistered(req.key)
    /\ req.key.instrument = "EquityVanillaOption"
    /\ req.input.shape = "VanillaBSInput"
    /\ req.input.strike = 0
    /\ outcome = "UnsupportedInstrument"
    /\ ~inputRead

(***************************************************************************)
(* C3.  Every registered triple is a supported cell: some input of the     *)
(* shape its lambda expects makes the call end in Success.  The code       *)
(* registers (EquityAmericanVanillaOption, BlackScholes,                   *)
(* PDEFiniteDifference), whose adapter throws UnsupportedInstrument on     *)
(* every input.                                                            *)
(***************************************************************************)
C3_RegisteredIsSupported ==
    (pc = "factory") =>
        \E in \in PricingInput :
            /\ RegistryFind(default_registry, req.key) # {}
            /\ in.shape = (CHOOSE e \in RegistryFind(default_registry, req.key) : TRUE).shape
            /\ "Success" \in PriceOutcomes(default_registry, PricingRequest(req.key, in))

(***************************************************************************)
(* C4.  Every engine class has a visit for each of the five instrument     *)
(* variants, and a variant the class does not price ends in                *)
(* UnsupportedInstrument.  BSEuroAsianMCEngine overrides two of the five   *)
(* visits, and the two analytic Asian engines declare visit(EquityFuture)  *)
(* without defining it.                                                    *)
(***************************************************************************)
C4_UnpricedVariantUnsupported ==
    (Dispatched /\ VisitImpl(eng.cls, eng.def, inst.variant) # "prices") =>
        outcome = "UnsupportedInstrument"

(***************************************************************************)
(* C5.  BlackScholesModel offers the local-volatility capability, so       *)
(* require_model never raises InvalidInput on a context the registry built *)
(* around a BlackScholesModel.  In the code BlackScholesModel derives      *)
(* IBlackScholesModel only, and six visits ask for ILocalVolModel.         *)
(***************************************************************************)
C5_RegistryContextHasCapability ==
    (pc = "dispatch" /\ route = "registry" /\ eng.ctx.model = "BlackScholesModel"
        /\ VisitImpl(eng.cls, eng.def, inst.variant) = "prices") =>
        require_model(RequiredIface(eng.cls, eng.def), eng.ctx.model) = "ok"

(***************************************************************************)
(* SpecReg: threads racing on default_registry() (registry.cpp 36-150).    *)
(* The registry is a function-local static initialised by a lambda: the    *)
(* first thread to reach the declaration runs the lambda, which fills a    *)
(* registry r of its own with the thirteen registrations and returns it;   *)
(* a thread arriving meanwhile waits for the initialisation to complete.   *)
(* builds, late and contended record history for the properties.           *)
(***************************************************************************)
NumThreads == 3   \* threads calling default_registry()
MaxCalls == 2     \* calls of default_registry() per thread

Threads == 1..NumThreads

\* The test the compiler places on the static's guard: only a thread that
\* finds it untouched runs the initialiser.  This variant admits every
\* thread that does not find the initialisation complete.
GuardAdmits_NotDone(g) == g # "done"

GuardAdmits(g) == g = "uninit"

InitReg ==
    /\ CallIdle
    /\ mc = Unused
    /\ shared = Unused
    /\ CalcUnused
    /\ reg = [guard     |-> "uninit",
              registry  |-> {},
              r         |-> [t \in Threads |-> {}],
              n         |-> [t \in Threads |-> 0],
              thr       |-> [t \in Threads |-> "out"],
              seen      |-> [t \in Threads |-> {}],
              calls     |-> [t \in Threads |-> 0],
              builds    |-> 0,
              late      |-> FALSE,
              contended |-> FALSE]

\* Thread t calls default_registry() and reaches the static declaration.
RegEnter(t) ==
    /\ reg.thr[t] = "out"
    /\ reg.calls[t] < MaxCalls
    /\ reg' =
         IF reg.guard = "done"
         THEN [reg EXCEPT !.thr[t] = "returned", !.seen[t] = reg.registry,
                          !.calls[t] = @ + 1]
         ELSE IF GuardAdmits(reg.guard)
         THEN [reg EXCEPT !.thr[t] = "init", !.guard = "building", !.r[t] = {},
                          !.n[t] = 0, !.builds = @ + 1, !.calls[t] = @ + 1]
         ELSE [reg EXCEPT !.thr[t] = "waiting", !.contended = TRUE, !.calls[t] = @ + 1]
    /\ UNCHANGED <<callVars, mc, shared, calcVars>>

\* The initialising thread runs the next r.register_pricer(...) of the lambda.
RegRegister(t) ==
    /\ reg.thr[t] = "init"
    /\ reg.n[t] < Len(Registrations)
    /\ reg' = [reg EXCEPT !.r[t] = register_pricer(@, Registrations[reg.n[t] + 1]),
                          !.n[t] = @ + 1,
                          !.late = @ \/ (\E u \in Threads : reg.calls[u] > 0 /\ reg.thr[u] \in {"returned", "out"})]
    /\ UNCHANGED <<callVars, mc, shared, calcVars>>

\* return r: the static is constructed from r, the guard is released and the
\* initialising thread's call returns a reference to it.
RegPublish(t) ==
    /\ reg.thr[t] = "init"
    /\ reg.n[t] = Len(Registrations)
    /\ reg' = [reg EXCEPT !.registry = reg.r[t], !.guard = "done",
                          !.thr[t] = "returned", !.seen[t] = reg.r[t]]
    /\ UNCHANGED <<callVars, mc, shared, calcVars>>

\* A waiting thread resumes once the initialisation is complete.
RegResume(t) ==
    /\ reg.thr[t] = "waiting"
    /\ reg.guard = "done"
    /\ reg' = [reg EXCEPT !.thr[t] = "returned", !.seen[t] = reg.registry]
    /\ UNCHANGED <<callVars, mc, shared, calcVars>>

\* The caller is done with the reference it was given.
RegLeave(t) ==
    /\ reg.thr[t] = "returned"
    /\ reg' = [reg EXCEPT !.thr[t] = "out"]
    /\ UNCHANGED <<callVars, mc, shared, calcVars>>

NextReg ==
    \E t \in Threads :
        RegEnter(t) \/ RegRegister(t) \/ RegPublish(t) \/ RegResume(t) \/ RegLeave(t)

SpecReg == InitReg /\ [][NextReg]_vars

(***************************************************************************)
(* C9.  Under concurrent first use the registry is built exactly once,     *)
(* every caller is handed the complete registry, and no registration       *)
(* happens after the first access has returned.                            *)
(***************************************************************************)
C9_BuiltOnceAndComplete ==
    /\ reg.builds <= 1
    /\ ~reg.late
    /\ \A t \in Threads :
          reg.thr[t] = "returned" =>
              /\ reg.seen[t] = default_registry
              /\ \A n \in 1..Len(Registrations) :
                    RegistryFind(reg.seen[t], Registrations[n].key) = {Registrations[n]}

\* Every thread has its reference, and at least one of them arrived while
\* another thread was still running the initialiser.
C9_Witness ==
    /\ \A t \in Threads : reg.thr[t] = "returned"
    /\ reg.contended
    /\ reg.builds = 1

(***************************************************************************)
(* utils/rng.hpp: Pcg32.  A uint64_t is held as eight bytes, least         *)
(* significant first, so that every operation is the arithmetic modulo     *)
(* 2^64 of the source; a uint32_t as four bytes.                           *)
(***************************************************************************)
\* Carry propagation over the columns k..8: the value modulo 2^64.
RECURSIVE NormFrom(_, _, _)
NormFrom(cols, k, carry) ==
    IF k > 8 THEN << >>
    ELSE <<(cols[k] + carry) % 256>> \o NormFrom(cols, k + 1, (cols[k] + carry) \div 256)

\* The uint64_t of a small natural number.
RECURSIVE BytesOf(_, _)
BytesOf(n, len) == IF len = 0 THEN << >> ELSE <<n % 256>> \o BytesOf(n \div 256, len - 1)

U64(n) == BytesOf(n, 8)

Add64(a, b) == NormFrom([k \in 1..8 |-> a[k] + b[k]], 1, 0)

\* Column k of the schoolbook product: the sum of a[i] * b[k - i].
MulCol(a, b, k) ==
    LET f[i \in 0..k] == a[i + 1] * b[k - i + 1] + (IF i = 0 THEN 0 ELSE f[i - 1])
    IN  f[k]

Mul64(a, b) == NormFrom([k \in 1..8 |-> MulCol(a, b, k - 1)], 1, 0)

\* 6364136223846793005ULL = 0x5851F42D4C957F2D
PcgMultiplier == <<45, 127, 149, 76, 45, 244, 81, 88>>

\* Bit i of a uint64_t; 0 beyond bit 63 (what a right shift brings in).
Bit64(x, i) == IF i >= 64 THEN 0 ELSE (x[(i \div 8) + 1] \div (2 ^ (i % 8))) % 2

\* static_cast<uint32_t>(((oldstate >> 18u) ^ oldstate) >> 27u), bit j.
XorShiftedBit(old, j) == (Bit64(old, j + 45) + Bit64(old, j + 27)) % 2

\* static_cast<uint32_t>(oldstate >> 59u)
PcgRot(old) == old[8] \div 8

\* (xorshifted >> rot) | (xorshifted << ((-rot) & 31)), bit j.
PcgOutputBit(old, j) == XorShiftedBit(old, (j + PcgRot(old)) % 32)

PcgOutput(old) ==
    [m \in 1..4 |->
        LET f[b \in 0..7] == PcgOutputBit(old, 8 * (m - 1) + b) * (2 ^ b)
                             + (IF b = 0 THEN 0 ELSE f[b - 1])
        IN  f[7]]

\* Pcg32::operator(): the generator after the call and the value returned.
PcgNext(rng) ==
    [rng |-> [rng EXCEPT !.state = Add64(Mul64(rng.state, PcgMultiplier), rng.inc)],
     out |-> PcgOutput(rng.state)]

\* A stream selector that is the stream id doubled, the low bit not forced.
PcgInc_NotForcedOdd(stream_id) == Add64(stream_id, stream_id)

\* inc = (stream_id << 1u) | 1u
PcgInc(stream_id) == Add64(Add64(stream_id, stream_id), U64(1))

\* Pcg32(seed, stream_id) with seed_rng(seed).
Pcg32(seed, stream_id) ==
    LET r0 == [state |-> U64(0), inc |-> PcgInc(stream_id)]
        r1 == PcgNext(r0).rng
        r2 == [r1 EXCEPT !.state = Add64(r1.state, seed)]
    IN  PcgNext(r2).rng

\* RngFactory(seed).make(stream_id)
RngFactoryMake(master_seed, stream_id) == Pcg32(master_seed, stream_id)

\* uniform01: u = (raw + 0.5) / 2^32, a value of (0,1) fixed by raw; it is
\* held as the numerator 2 * raw + 1 of u = (2 * raw + 1) / 2^33, on five bytes.
UniformOf(raw) ==
    LET sum == [k \in 1..5 |-> (IF k = 5 THEN 0 ELSE 2 * raw[k]) + (IF k = 1 THEN 1 ELSE 0)]
        norm[k \in 1..5] ==
            LET c == IF k = 1 THEN 0 ELSE norm[k - 1].carry
            IN  [digit |-> (sum[k] + c) % 256, carry |-> (sum[k] + c) \div 256]
    IN  [k \in 1..5 |-> norm[k].digit]

\* The generator after rng() and the uniform made of the value returned.
UniformDrawn(d) == [rng |-> d.rng, u |-> UniformOf(d.out)]

uniform01(rng) == UniformDrawn(PcgNext(rng))

(***************************************************************************)
(* utils/rng.hpp: the Gaussian generators.  A Gaussian is held by what     *)
(* fixes it: the two uniforms it was computed from, whether it is the      *)
(* cosine or the sine half of the Box-Muller pair, and its sign.           *)
(***************************************************************************)
Gaussian(u1, u2, part) == [u1 |-> u1, u2 |-> u2, part |-> part, neg |-> FALSE]

\* -z
Neg(z) == [z EXCEPT !.neg = ~@]

\* double spare = 0.0
ZeroReal == [u1 |-> << >>, u2 |-> << >>, part |-> "zero", neg |-> FALSE]

\* NormalBoxMuller gaussianGenerator;
NewBoxMuller == [hasSpare |-> FALSE, spare |-> ZeroReal]

\* z0 = r cos(theta) is returned, z1 = r sin(theta) is cached as the spare.
BoxMullerOf(a, b) ==
    [bm  |-> [hasSpare |-> TRUE, spare |-> Gaussian(a.u, b.u, "sin")],
     rng |-> b.rng,
     z   |-> Gaussian(a.u, b.u, "cos")]

\* u1 is drawn, u2 is drawn next.
BoxMullerAfter(a) == BoxMullerOf(a, uniform01(a.rng))

\* NormalBoxMuller::operator(): the cached spare, or a fresh pair.
NormalBoxMuller(bm, rng) ==
    IF bm.hasSpare
    THEN [bm |-> [bm EXCEPT !.hasSpare = FALSE], rng |-> rng, z |-> bm.spare]
    ELSE BoxMullerAfter(uniform01(rng))

\* AntitheticGaussianGenerator gaussianGenerator; then enable_antithetic() or
\* disable_antithetic().  The vanilla engine uses the inner generator alone.
NewGenerator(antithetic) ==
    [inner |-> NewBoxMuller, antithetic_enabled |-> antithetic, call_count |-> 0]

\* What the wrapper does with the sample g of its inner generator: negated
\* when call_count is odd, and call_count incremented.
AntitheticOf(gen, g) ==
    IF gen.antithetic_enabled
    THEN [gen |-> [gen EXCEPT !.inner = g.bm, !.call_count = @ + 1],
          rng |-> g.rng,
          z   |-> IF gen.call_count % 2 = 1 THEN Neg(g.z) ELSE g.z]
    ELSE [gen |-> [gen EXCEPT !.inner = g.bm], rng |-> g.rng, z |-> g.z]

\* AntitheticGaussianGenerator::operator(): double z = inner(rng) on every call.
AntitheticGaussianGenerator(gen, rng) == AntitheticOf(gen, NormalBoxMuller(gen.inner, rng))

PlainOf(gen, g) == [gen |-> [gen EXCEPT !.inner = g.bm], rng |-> g.rng, z |-> g.z]

\* The vanilla engine's gaussianGenerator(rng): NormalBoxMuller itself.
PlainGenerator(gen, rng) == PlainOf(gen, NormalBoxMuller(gen.inner, rng))

(***************************************************************************)
(* The Monte Carlo visits (engines/mc/black_scholes.cpp, asian.cpp).       *)
(* What a visit computes is kept uninterpreted: a path iteration is the    *)
(* Gaussians it drew and, for each of the five variants it values (base,   *)
(* spot up, spot down, maturity up, maturity down), the shocks that        *)
(* variant's formula was given, in order.  Every output field is a         *)
(* function of the parameters, of n and of these iterations in order.      *)
(***************************************************************************)
MCVariant == {"base", "Sup", "Sdn", "Tup", "Tdn"}

Seeds == {7, 42}

\* Maturities of the Asian option in days: T = days / 365.
MaturityDays == {1, 3}

\* settings.mc_paths is an int no engine validates: a negative count, none,
\* and up to MaxPaths.
PathCounts == (0 - 1)..MaxPaths

McParams ==
    {[engine |-> "BSEuroVanillaMCEngine", model |-> m, mc_seed |-> sd, mc_paths |-> np,
      mc_antithetic |-> a, days |-> 1] :
        m \in {"BlackScholesModel", "LocalVolImpl"}, sd \in Seeds,
        np \in PathCounts, a \in BOOLEAN}
    \cup
    {[engine |-> "BSEuroAsianMCEngine", model |-> "BlackScholesModel", mc_seed |-> sd,
      mc_paths |-> np, mc_antithetic |-> a, days |-> d] :
        sd \in Seeds, np \in PathCounts, a \in BOOLEAN, d \in MaturityDays}

Max(a, b) == IF a >= b THEN a ELSE b

\* std::max(1, static_cast<int>(T * 252.0 + 0.5)) for T = days / 365.
NumDates(days) == Max(1, (504 * days + 365) \div 730)

\* T_up = T + theta_bump and T_dn = std::max(1e-8, T - theta_bump), with
\* theta_bump = 1/365: one day more, one day less or 1e-8.
NumDatesUp(days) == NumDates(days + 1)

NumDatesDn(days) == IF days > 1 THEN NumDates(days - 1) ELSE 1

\* The number of steps of each variant's own path in the Asian engine; the
\* spot bumps rescale the base average and have no path of their own.
AsianDates(days) ==
    [v \in MCVariant |->
        CASE v = "Tup" -> NumDatesUp(days)
          [] v = "Tdn" -> NumDatesDn(days)
          [] OTHER     -> NumDates(days)]

\* max_dates
MaxDates(days) == Max(NumDates(days), Max(NumDatesUp(days), NumDatesDn(days)))

\* A formula of variant v that is handed the negation of the iteration's
\* draw where the source hands it the draw.
VariantShock_Negated(v, z) == IF v = "Tup" THEN Neg(z) ELSE z

\* The shock the formula of variant v is given when the iteration drew z.
VariantShock(v, z) == z

NoShocks == [v \in MCVariant |-> << >>]

\* The state local to one visit, apart from its generator objects.
NewLocal(par) ==
    [par |-> par, i |-> 0, j |-> 0, drawn |-> << >>, shocks |-> NoShocks,
     paths |-> << >>, n |-> 0, outs |-> << >>]

NoParams ==
    [engine |-> "BSEuroAsianMCEngine", model |-> "null", mc_seed |-> 0, mc_paths |-> 0,
     mc_antithetic |-> FALSE, days |-> 1]

\* The instrument the adapters hand to the visit: valid, European.
McInstrument(par) ==
    IF par.engine = "BSEuroVanillaMCEngine"
    THEN VanillaOption(TRUE, TRUE, "European", 1, 1, 1)
    ELSE AsianOption(TRUE, TRUE, "European", 1, 1, "Arithmetic", 1)

\* validate(opt) and require_model at the head of the visit.
McEntry(par) ==
    visit(par.engine, "cpp", PricingContext(par.model, 0, 0, 0, "none"), McInstrument(par))

\* nbPairs = settings.mc_paths / 2, the int division truncating towards zero.
NbPairs(np) == IF np >= 0 THEN np \div 2 ELSE 0 - ((0 - np) \div 2)

\* hasOdd = (settings.mc_paths % 2) != 0: the remainder of a negative odd
\* count is -1.
HasOdd(np) == np % 2 # 0

\* The loop condition of the visit: another generator call is to come.  The
\* antithetic vanilla visit runs i < nbPairs and then the odd path if hasOdd.
McMore(loc) ==
    IF loc.par.engine = "BSEuroAsianMCEngine" THEN loc.i < loc.par.mc_paths
    ELSE IF ~loc.par.mc_antithetic THEN loc.i < loc.par.mc_paths
    ELSE loc.i < Max(NbPairs(loc.par.mc_paths), 0)
                 + (IF HasOdd(loc.par.mc_paths) THEN 1 ELSE 0)

\* The accumulators welford_update is called on.
Accumulators ==
    {"payoff", "delta", "payoff_Sup", "payoff_Sdn", "payoff_Tup", "payoff_Tdn",
     "vega", "rho", "gamma", "theta"}

\* The n_val each accumulator is updated with in an iteration: welford_push
\* runs ++n first, and every call passes n.
WelfordCounts(loc) == [a \in Accumulators |-> loc.n + 1]

\* One iteration of the vanilla loops once z = g.z is drawn: z is used by
\* the five variants; in the antithetic loop the iteration values the pair
\* (z, -z) for i < nbPairs and the odd path last.  welford_push increments n.
VanillaAccumulate(loc, g) ==
    [loc |-> [loc EXCEPT
                !.i = @ + 1, !.n = @ + 1, !.outs = Append(@, g.z),
                !.paths = Append(@,
                    [drawn  |-> <<g.z>>,
                     shocks |-> [v \in MCVariant |-> <<VariantShock(v, g.z)>>],
                     n_val  |-> WelfordCounts(loc),
                     pair   |-> loc.par.mc_antithetic /\ loc.i < NbPairs(loc.par.mc_paths)])],
     rng |-> g.rng, gen |-> g.gen]

VanillaStep(loc, rng, gen) == VanillaAccumulate(loc, PlainGenerator(gen, rng))

\* The shocks of the iteration once step j has drawn z: z goes to each
\* variant whose own path has a step j.
AsianShocks(loc, z) ==
    [v \in MCVariant |->
        IF loc.j < AsianDates(loc.par.days)[v]
        THEN Append(loc.shocks[v], VariantShock(v, z))
        ELSE loc.shocks[v]]

\* One turn of the inner loop of the Asian visit once z = g.z is drawn;
\* after the last turn the iteration is accumulated (welford_push) and the
\* next one starts.
AsianAccumulate(loc, g) ==
    [loc |-> IF loc.j + 1 < MaxDates(loc.par.days)
             THEN [loc EXCEPT !.j = @ + 1, !.drawn = Append(@, g.z),
                              !.shocks = AsianShocks(loc, g.z), !.outs = Append(@, g.z)]
             ELSE [loc EXCEPT !.i = @ + 1, !.j = 0, !.n = @ + 1,
                              !.drawn = << >>, !.shocks = NoShocks,
                              !.outs = Append(@, g.z),
                              !.paths = Append(@, [drawn  |-> Append(loc.drawn, g.z),
                                                   shocks |-> AsianShocks(loc, g.z),
                                                   n_val  |-> WelfordCounts(loc),
                                                   pair   |-> FALSE])],
     rng |-> g.rng, gen |-> g.gen]

AsianStep(loc, rng, gen) == AsianAccumulate(loc, AntitheticGaussianGenerator(gen, rng))

McStep(loc, rng, gen) ==
    IF loc.par.engine = "BSEuroAsianMCEngine" THEN AsianStep(loc, rng, gen)
    ELSE VanillaStep(loc, rng, gen)

\* priceStdError and the five Greek standard errors: (n > 1) ? ... : 0.0.
StdErrors(n) == IF n > 1 THEN "value" ELSE "zero"

\* res_ = out: the result the visit stores.
McResult(status, loc) ==
    [status |-> status, n |-> loc.n, paths |-> loc.paths, outs |-> loc.outs,
     antithetic |-> loc.par.mc_antithetic, std_errors |-> StdErrors(loc.n)]

NoResult == McResult("none", NewLocal(NoParams))

\* The generator object the visit declares: the Asian visit an
\* AntitheticGaussianGenerator it enables or disables, the vanilla visit a
\* NormalBoxMuller.
McGenerator(par) ==
    IF par.engine = "BSEuroAsianMCEngine" THEN NewGenerator(par.mc_antithetic)
    ELSE NewGenerator(FALSE)

\* The visit run from its first statement to its last with nothing else
\* running: the result of the call on its own.
RECURSIVE RunLoop(_, _, _)
RunFrom(nx) == RunLoop(nx.loc, nx.rng, nx.gen)

RunLoop(loc, rng, gen) ==
    IF McMore(loc) THEN RunFrom(McStep(loc, rng, gen)) ELSE McResult("Success", loc)

RunChecked(par, entry) ==
    IF entry # "Success" THEN McResult(entry, NewLocal(par))
    ELSE RunLoop(NewLocal(par), RngFactoryMake(U64(par.mc_seed), U64(0)), McGenerator(par))

RunAlone(par) == RunChecked(par, McEntry(par))

\* RunAlone, tabulated.
SoloResult == [par \in McParams |-> RunAlone(par)]

(***************************************************************************)
(* SpecMC: two pricing calls on two threads, each inside a Monte Carlo     *)
(* visit, interleaved generator call by generator call.  shared holds the  *)
(* storage of the generator objects, one slot per object: rng and          *)
(* gaussianGenerator are automatic variables of the visit, so call c has   *)
(* slot c of each.                                                         *)
(***************************************************************************)
Calls == {1, 2}

\* One Pcg32 object for every call, as a static rng would be.
RngSlot_Static(c) == 1

\* The storage of call c's rng.
RngSlot(c) == c

\* One generator object for every call, as a static gaussianGenerator would be.
GenSlot_Static(c) == 1

\* The storage of call c's gaussianGenerator.
GenSlot(c) == c

NoRng == [state |-> U64(0), inc |-> U64(0)]

McIdle == [pc |-> "idle", loc |-> NewLocal(NoParams), res |-> NoResult]

InitMC ==
    /\ CallIdle
    /\ reg = Unused
    /\ CalcUnused
    /\ mc = [c \in Calls |-> McIdle]
    /\ shared = [rng |-> [c \in Calls |-> NoRng], gen |-> [c \in Calls |-> NewGenerator(FALSE)]]

\* The head of the visit of call c with parameters par, entry being what
\* validate and require_model come to: a throw, or the declarations of rng
\* and gaussianGenerator.
McEnter(c, par, entry) ==
    IF entry # "Success"
    THEN /\ mc' = [mc EXCEPT ![c] = [pc |-> "done", loc |-> NewLocal(par),
                                     res |-> McResult(entry, NewLocal(par))]]
         /\ shared' = shared
    ELSE /\ mc' = [mc EXCEPT ![c] = [pc |-> "loop", loc |-> NewLocal(par), res |-> NoResult]]
         /\ shared' = [shared EXCEPT
                          !.rng[RngSlot(c)] = RngFactoryMake(U64(par.mc_seed), U64(0)),
                          !.gen[GenSlot(c)] = McGenerator(par)]

\* Call c enters the visit.
McStart(c) ==
    /\ mc[c].pc = "idle"
    /\ \E par \in McParams : McEnter(c, par, McEntry(par))
    /\ UNCHANGED <<callVars, reg, calcVars>>

\* The objects of call c after a step: its locals, and its generators in
\* their storage.
McStore(c, nx) ==
    /\ mc' = [mc EXCEPT ![c].loc = nx.loc]
    /\ shared' = [shared EXCEPT !.rng[RngSlot(c)] = nx.rng, !.gen[GenSlot(c)] = nx.gen]

\* Call c makes its next generator call and everything up to the one after.
McDraw(c) ==
    /\ mc[c].pc = "loop"
    /\ McMore(mc[c].loc)
    /\ McStore(c, McStep(mc[c].loc, shared.rng[RngSlot(c)], shared.gen[GenSlot(c)]))
    /\ UNCHANGED <<callVars, reg, calcVars>>

\* The loops are over: the statistics are turned into the result.
McFinish(c) ==
    /\ mc[c].pc = "loop"
    /\ ~McMore(mc[c].loc)
    /\ mc' = [mc EXCEPT ![c].pc = "done", ![c].res = McResult("Success", mc[c].loc)]
    /\ UNCHANGED <<callVars, shared, reg, calcVars>>

NextMC == \E c \in Calls : McStart(c) \/ McDraw(c) \/ McFinish(c)

SpecMC == InitMC /\ [][NextMC]_vars

\* The iterations call c has gone through: the accumulated ones and the one
\* under way.
Iterations(c) ==
    {mc[c].loc.paths[k] : k \in 1..Len(mc[c].loc.paths)}
    \cup {[drawn |-> mc[c].loc.drawn, shocks |-> mc[c].loc.shocks,
           n_val |-> WelfordCounts(mc[c].loc), pair |-> FALSE]}

Accumulated(c) == {mc[c].loc.paths[k] : k \in 1..Len(mc[c].loc.paths)}

Min(a, b) == IF a <= b THEN a ELSE b

(***************************************************************************)
(* C6.  Monte Carlo is deterministic: two runs of a Monte Carlo engine     *)
(* with the same instrument, model, seed, path count and antithetic flag   *)
(* make the same sequence of generator draws and return results equal in   *)
(* every field, whatever else runs meanwhile.                              *)
(***************************************************************************)
C6_Deterministic ==
    \A c \in Calls, d \in Calls :
        (mc[c].pc # "idle" /\ mc[d].pc # "idle" /\ mc[c].loc.par = mc[d].loc.par) =>
            /\ \A k \in 1..Min(Len(mc[c].loc.outs), Len(mc[d].loc.outs)) :
                  mc[c].loc.outs[k] = mc[d].loc.outs[k]
            /\ (mc[c].pc = "done" /\ mc[d].pc = "done") => mc[c].res = mc[d].res

\* Two finished runs of the Asian engine with the same parameters, antithetic
\* on, several paths of several draws each.
C6_Witness ==
    /\ mc[1].pc = "done"
    /\ mc[2].pc = "done"
    /\ mc[1].loc.par = mc[2].loc.par
    /\ mc[1].loc.par.engine = "BSEuroAsianMCEngine"
    /\ mc[1].loc.par.mc_antithetic
    /\ mc[1].res.status = "Success"
    /\ mc[1].res.n >= 2
    /\ Len(mc[1].res.outs) >= 4

(***************************************************************************)
(* C7 as stated.  Inside one path iteration every Gaussian is drawn once   *)
(* and shared by all variants: the shocks of each of the five variants are *)
(* the draws of the iteration.  The Asian loop draws one z per step of the *)
(* longest of the base, maturity-up and maturity-down paths, so a draw     *)
(* beyond a variant's own date count is not used by that variant.          *)
(***************************************************************************)
C7_EveryDrawSharedByAll ==
    \A c \in Calls : \A p \in Accumulated(c) :
        \A v \in MCVariant : p.shocks[v] = p.drawn

(***************************************************************************)
(* C7, amended.  Common random numbers: in every path iteration the k-th   *)
(* shock of each variant is the k-th Gaussian drawn in that iteration, so  *)
(* it is the same draw as the k-th shock of the base variant wherever both *)
(* have one; the two spot bumps use exactly the base's shocks; every draw  *)
(* of the call is a draw of one of its iterations, and every draw of an    *)
(* accumulated iteration is used by some variant.                          *)
(***************************************************************************)
C7_CommonRandomNumbers ==
    \A c \in Calls :
        /\ \A p \in Iterations(c) :
              /\ \A v \in MCVariant :
                    /\ Len(p.shocks[v]) <= Len(p.drawn)
                    /\ \A k \in 1..Len(p.shocks[v]) : p.shocks[v][k] = p.drawn[k]
              /\ p.shocks["Sup"] = p.shocks["base"]
              /\ p.shocks["Sdn"] = p.shocks["base"]
        /\ \A p \in Accumulated(c) :
              /\ Len(p.drawn) >= 1
              /\ \E v \in MCVariant : p.shocks[v] = p.drawn
              /\ mc[c].loc.par.engine = "BSEuroVanillaMCEngine" =>
                    \A v \in MCVariant : p.shocks[v] = p.drawn /\ Len(p.drawn) = 1
        /\ \A k \in 1..Len(mc[c].loc.outs) :
              \E p \in Iterations(c) : \E m \in 1..Len(p.drawn) :
                  p.drawn[m] = mc[c].loc.outs[k]

\* An accumulated iteration of the Asian engine whose three paths have three
\* different lengths, and an accumulated iteration of the vanilla engine.
C7_Witness ==
    /\ mc[1].loc.par.engine = "BSEuroAsianMCEngine"
    /\ \E p \in Accumulated(1) :
          /\ Len(p.drawn) = 3
          /\ Len(p.shocks["base"]) = 2
          /\ Len(p.shocks["Tup"]) = 3
          /\ Len(p.shocks["Tdn"]) = 1
    /\ mc[2].loc.par.engine = "BSEuroVanillaMCEngine"
    /\ mc[2].loc.par.mc_antithetic
    /\ \E p \in Accumulated(2) : p.pair

(***************************************************************************)
(* C8.  With antithetic mode enabled the wrapper returns a sample z on     *)
(* call 2k and the negation -z of that same sample on call 2k+1.  The code *)
(* takes a new sample of the inner generator on every call and negates the *)
(* odd ones: call 2k+1 returns the negation of another sample.             *)
(***************************************************************************)
C8_OddCallNegatesPrevious ==
    \A c \in Calls :
        (mc[c].loc.par.engine = "BSEuroAsianMCEngine" /\ mc[c].loc.par.mc_antithetic) =>
            \A k \in 1..Len(mc[c].loc.outs) :
                (k % 2 = 0) => mc[c].loc.outs[k] = Neg(mc[c].loc.outs[k - 1])

(***************************************************************************)
(* C10.  Pricing calls running concurrently do not affect one another:     *)
(* under every interleaving the result of each call is the result of that  *)
(* call run alone.                                                         *)
(***************************************************************************)
C10_EqualsSoloResult ==
    \A c \in Calls :
        /\ mc[c].pc = "done" => mc[c].res = SoloResult[mc[c].loc.par]
        /\ mc[c].pc = "loop" =>
              LET solo == SoloResult[mc[c].loc.par].outs
              IN  /\ Len(mc[c].loc.outs) <= Len(solo)
                  /\ \A k \in 1..Len(mc[c].loc.outs) : mc[c].loc.outs[k] = solo[k]

\* Two finished calls with different seeds on different engines, each with
\* draws of its own.
C10_Witness ==
    /\ mc[1].pc = "done"
    /\ mc[2].pc = "done"
    /\ mc[1].loc.par.engine # mc[2].loc.par.engine
    /\ mc[1].loc.par.mc_seed # mc[2].loc.par.mc_seed
    /\ mc[1].res.status = "Success"
    /\ mc[2].res.status = "Success"
    /\ Len(mc[1].res.outs) >= 2
    /\ Len(mc[2].res.outs) >= 2
    /\ mc[1].res.outs[1] # mc[2].res.outs[1]

(***************************************************************************)
(* Properties of the typed errors and of the returned result (Spec).       *)
(***************************************************************************)
\* An option that is well formed apart from its numbers: payoff and exercise
\* present, European exercise.
WellFormedOption(i) == i.payoff /\ i.exercise /\ i.exercise_type = "European"

\* The variants that carry a strike.
CarriesStrike(v) == v \in {"VanillaOption", "AsianOption", "EquityFuture"}

\* The instrument has a non-positive maturity, or a non-positive strike.
NonPositiveField(i) ==
    \/ ~(i.maturity > 0)
    \/ CarriesStrike(i.variant) /\ ~(i.strike > 0)

\* The visit that ran is a pricing visit of the engine.
PricingVisit == Dispatched /\ VisitImpl(eng.cls, eng.def, inst.variant) = "prices"

(***************************************************************************)
(* C11.  A pricing call whose instrument has a non-positive strike or a    *)
(* non-positive maturity ends in InvalidInput, on every engine.  The three *)
(* Asian engines validate the payoff and the exercise only and go on to    *)
(* value the option.                                                       *)
(***************************************************************************)
C11_NonPositiveRejected ==
    (/\ PricingVisit
     /\ inst.variant \in {"VanillaOption", "AsianOption"} => WellFormedOption(inst)
     /\ NonPositiveField(inst))
        => outcome = "InvalidInput"

\* The engines that accept European exercise only.
EuropeanOnly ==
    {"BSEuroVanillaAnalyticEngine", "BSEuroVanillaMCEngine", "PDEEuropeanVanillaEngine"}

(***************************************************************************)
(* C12.  A vanilla option with American exercise visited by the analytic,  *)
(* the Monte Carlo or the PDE vanilla engine aborts with InvalidInput.     *)
(* The three validate functions throw UnsupportedInstrument instead.       *)
(***************************************************************************)
C12_AmericanOnEuropeanInvalidInput ==
    (/\ Dispatched
     /\ eng.cls \in EuropeanOnly
     /\ inst.variant = "VanillaOption"
     /\ inst.payoff /\ inst.exercise
     /\ inst.exercise_type = "American")
        => outcome = "InvalidInput"

\* A count of the settings that engine class cls consumes is below 1.
ConsumedBelowOne(cls, ctx) ==
    CASE cls \in {"BinomialVanillaEngine", "TrinomialVanillaEngine"} -> ctx.tree_steps < 1
      [] cls = "PDEEuropeanVanillaEngine" ->
             ctx.pde_space_steps < 1 \/ ctx.pde_time_steps < 1
      [] cls \in {"BSEuroVanillaMCEngine", "BSEuroAsianMCEngine"} -> ctx.mc_paths < 1
      [] OTHER -> FALSE

\* What the registered lambda of the current request builds.
Requested ==
    CallAdapter(CHOOSE e \in RegistryFind(default_registry, req.key) : TRUE, req.input)

\* The registry call is over and its adapter got as far as constructing an
\* engine.
AdapterRan ==
    /\ pc = "done" /\ route = "registry"
    /\ RegistryFind(default_registry, req.key) # {}
    /\ inputRead
    /\ StdGet((CHOOSE e \in RegistryFind(default_registry, req.key) : TRUE).shape,
              req.input) = "ok"
    /\ Requested.thrown = "none"

(***************************************************************************)
(* C13.  An engine rejects its settings with InvalidInput exactly when a   *)
(* count it consumes is below 1.  Stated on a finished call: a consumed    *)
(* count below 1 ends the call in InvalidInput, and with every consumed    *)
(* count at 1 or more the engine is constructed.  The PDE constructor      *)
(* requires pde_space_steps >= 2, and no Monte Carlo engine looks at       *)
(* mc_paths.                                                               *)
(***************************************************************************)
C13_RejectsExactlyBelowOne ==
    /\ AdapterRan =>
          IF ConsumedBelowOne(Requested.cls, Requested.ctx)
          THEN outcome = "InvalidInput"
          ELSE eng # NoEngine
    /\ (Dispatched /\ route = "direct" /\ ConsumedBelowOne(eng.cls, eng.ctx))
          => outcome = "InvalidInput"

\* The table (ts, ds) is one the specification forbids: lengths differ, one
\* is empty, a time is not > 0, the times do not strictly increase, or a
\* discount factor is not > 0.
IllFormedCurve(ts, ds) ==
    \/ Len(ts) # Len(ds)
    \/ Len(ts) = 0
    \/ Len(ds) = 0
    \/ \E k \in 1..Len(ts) : ~(ts[k] > 0)
    \/ \E k \in 2..Len(ts) : ~(ts[k] > ts[k - 1])
    \/ \E k \in 1..Len(ds) : ~(ds[k] > 0)

\* A finished registry call on a bond cell whose input supplied at least one
\* of the two curve vectors.
BondCallWithTable ==
    /\ pc = "done" /\ route = "registry" /\ inputRead
    /\ req.key.model = "FlatRate" /\ req.key.engine = "Analytic"
    /\ \/ req.key.instrument = "ZeroCouponBond" /\ req.input.shape = "ZeroCouponBondInput"
       \/ req.key.instrument = "FixedRateBond" /\ req.input.shape = "FixedRateBondInput"
    /\ (Len(req.input.discount_times) # 0 \/ Len(req.input.discount_factors) # 0)

(***************************************************************************)
(* C14.  Building a tabulated discount curve from an ill-formed table      *)
(* raises InvalidInput; a bond input that supplies one of discount_times   *)
(* and discount_factors, or an ill-formed pair, ends in InvalidInput       *)
(* before any engine exists, and no call that supplied a vector is ever    *)
(* priced off the flat rate.                                               *)
(***************************************************************************)
C14_IllFormedCurveRejected ==
    BondCallWithTable =>
        /\ IllFormedCurve(req.input.discount_times, req.input.discount_factors)
              => (outcome = "InvalidInput" /\ eng = NoEngine)
        /\ eng # NoEngine => eng.ctx.discount = "table"

\* Only discount_times was supplied, everything else is valid: the call
\* ended in InvalidInput.
C14_Witness ==
    /\ BondCallWithTable
    /\ req.input.shape = "ZeroCouponBondInput"
    /\ req.input.maturity = 1 /\ req.input.notional = 1
    /\ req.input.discount_times = <<1>>
    /\ req.input.discount_factors = << >>
    /\ outcome = "InvalidInput"

\* The engine classes that draw no random number.
DeterministicEngines == EngineClass \ {"BSEuroVanillaMCEngine", "BSEuroAsianMCEngine"}

\* The call returned a result.
Returned == Dispatched /\ outcome = "Success"

(***************************************************************************)
(* C15.  Every result returned by a deterministic engine has mc_std_error  *)
(* equal to 0.  No deterministic engine assigns the member, and            *)
(* PricingResult gives it no initialiser: the returned value is            *)
(* indeterminate.                                                          *)
(***************************************************************************)
C15_DeterministicStdErrorZero ==
    (Returned /\ eng.cls \in DeterministicEngines) => res.mc_std_error = "zero"

\* The Greeks the specification has each engine class compute: none for the
\* future and the bonds, delta and gamma for the PDE, all but rho for the
\* trees, the five of them elsewhere.
Computes(cls) ==
    CASE cls \in {"BSEquityFutureAnalyticEngine", "FlatRateBondAnalyticEngine"} -> {}
      [] cls = "PDEEuropeanVanillaEngine" -> {"delta", "gamma"}
      [] cls \in {"BinomialVanillaEngine", "TrinomialVanillaEngine"} ->
             {"delta", "gamma", "vega", "theta"}
      [] OTHER -> GreekNames

(***************************************************************************)
(* C16.  In every returned result the standard error of a Greek is present *)
(* only if the Greek is, and a Greek the engine does not compute is absent *)
(* (an empty optional), never a 0.                                         *)
(***************************************************************************)
C16_GreeksAbsentNotZero ==
    Returned =>
        /\ \A g \in GreekNames :
              res.greeks[StdErrorField(g)] # "absent" => res.greeks[g] # "absent"
        /\ \A g \in GreekNames \ Computes(eng.cls) :
              res.greeks[g] = "absent" /\ res.greeks[StdErrorField(g)] = "absent"

\* A PDE result: delta and gamma are there, vega, theta and rho are empty.
C16_Witness ==
    /\ Returned
    /\ eng.cls = "PDEEuropeanVanillaEngine"
    /\ res.greeks.delta = "value" /\ res.greeks.gamma = "value"
    /\ res.greeks.vega = "absent" /\ res.greeks.theta = "absent"
    /\ res.greeks.rho = "absent"

\* Everything but the maturity of the instrument is valid.
ValidButMaturity(i) ==
    /\ i.variant \in {"VanillaOption", "AsianOption"} => WellFormedOption(i)
    /\ CarriesStrike(i.variant) => i.strike > 0
    /\ i.notional > 0
    /\ i.variant = "FixedRateBond" => (i.coupon_rate >= 0 /\ i.coupon_frequency >= 1)

\* No field of result r is NaN.
NoNaN(r) ==
    /\ r.npv # "nan"
    /\ r.mc_std_error # "nan"
    /\ \A f \in GreekFields : r.greeks[f] # "nan"

(***************************************************************************)
(* C17.  For an instrument whose maturity T is <= 0 every engine returns   *)
(* the discounted intrinsic value as a Success result, with no error and   *)
(* no NaN.  The vanilla, future and bond engines throw InvalidInput for    *)
(* T <= 0, and the geometric Asian engine returns NaN Greeks.              *)
(***************************************************************************)
C17_NonPositiveMaturityIntrinsic ==
    (/\ PricingVisit
     /\ require_model(RequiredIface(eng.cls, eng.def), eng.ctx.model) = "ok"
     /\ ValidButMaturity(inst)
     /\ ~(inst.maturity > 0))
        => /\ outcome = "Success"
           /\ res.npv \in {"intrinsic", "discounted_intrinsic"}
           /\ NoNaN(res)

(***************************************************************************)
(* The lattice valuation of BinomialVanillaEngine::visit and               *)
(* TrinomialVanillaEngine::visit, one node of the backward induction at a  *)
(* time.  The European and the American run of the same inputs are kept    *)
(* side by side: values[x] is the vector `values` of the run whose         *)
(* exercise type is x, and step[k] is the step of the tree whose value     *)
(* element k of `values` holds.                                            *)
(*                                                                         *)
(* Reals are kept on grids: a probability is a multiple of 1/ProbDen, the  *)
(* one-step discount factor a multiple of 1/DfDen, a spot or strike a      *)
(* multiple of UpFactor^(-steps), and an option value a multiple of        *)
(* 1/ValueUnit of that, each product being rounded to the nearest grid     *)
(* point as a double operation rounds to the nearest double.               *)
(***************************************************************************)
UpFactor == 2    \* u, the up factor of one step; d = 1/u
ProbDen == 4     \* probabilities range over the multiples of 1/ProbDen
DfDen == 2       \* df ranges over the multiples of 1/DfDen
ValueUnit == 8   \* option values are multiples of 1/ValueUnit

TreeKinds == {"binomial", "trinomial"}
OptionType == {"Call", "Put"}

RECURSIVE Pow(_, _)
Pow(b, n) == IF n = 0 THEN 1 ELSE b * Pow(b, n - 1)

\* The fraction num/den.
Fraction(num, den) == [num |-> num, den |-> den]

\* x / den rounded to the nearest integer, x >= 0.
Rounded(x, den) == (2 * x + den) \div (2 * den)

\* The numerators a probability is drawn from: the ones of [0,1] and one on
\* each side of it.
ProbNums == (0 - 1)..(ProbDen + 1)

\* What a visit reads of the model, the option and the engine: pu and pd are
\* the numerators of p_u and p_d (of p and 1 - p in the binomial engine), dfn
\* the numerator of df, T the maturity.
TreeInputs ==
    {x \in [kind : TreeKinds, steps : 1..MaxSteps, S0 : 1..2, K : 1..2,
            type : OptionType, notional : 1..2, T : 1..2,
            pu : ProbNums, pd : ProbNums, dfn : 1..(DfDen + 1)] :
        x.kind = "binomial" => x.pd = ProbDen - x.pu}

\* The numerator of p_m = 1 - p_u - p_d.
Pm(in) == ProbDen - in.pu - in.pd

\* A probability test that looks at p_u only.
ProbabilitiesOk_UpOnly(in) == in.pu >= 0 /\ in.pu <= ProbDen

\* The probability test of the two engines.
ProbabilitiesOk(in) ==
    IF in.kind = "binomial"
    THEN in.pu >= 0 /\ in.pu <= ProbDen
    ELSE /\ in.pu >= 0 /\ in.pu <= ProbDen
         /\ in.pd >= 0 /\ in.pd <= ProbDen
         /\ Pm(in) >= 0 /\ Pm(in) <= ProbDen

\* PlainVanillaPayoff::operator().
Payoff(type, K, spot) ==
    IF type = "Call" THEN Max(spot - K, 0) ELSE Max(K - spot, 0)

\* The nodes of step i are j = FirstNode..i, and node j is element Index of
\* `values`.
FirstNode(in, i) == IF in.kind = "binomial" THEN 0 ELSE 0 - i
Index(in, j) == IF in.kind = "binomial" THEN j ELSE j + in.steps
LastIndex(in) == IF in.kind = "binomial" THEN in.steps ELSE 2 * in.steps

\* The spot of node j of step i: S0*u^j*d^(i-j), respectively S0*u^j.
NodeSpot(in, i, j) ==
    in.S0 * Pow(UpFactor, in.steps + (IF in.kind = "binomial" THEN 2 * j - i ELSE j))

\* The payoff at node j of step i, as an option value.
Exercise(in, i, j) ==
    ValueUnit * Payoff(in.type, in.K * Pow(UpFactor, in.steps), NodeSpot(in, i, j))

\* `values` after the loop over the terminal nodes.
TerminalValues(in) ==
    [k \in 0..LastIndex(in) |->
        Exercise(in, in.steps, k - Index(in, 0))]

\* The discounted expectation read from `values` as it stands.
Continuation(in, v, idx) ==
    IF in.kind = "binomial"
    THEN Rounded(in.dfn * (in.pu * v[idx + 1] + (ProbDen - in.pu) * v[idx]),
                 DfDen * ProbDen)
    ELSE Rounded(in.dfn * (in.pu * v[idx + 1] + Pm(in) * v[idx] + in.pd * v[idx - 1]),
                 DfDen * ProbDen)

\* An early exercise that keeps the smaller of the two values.
EarlyExercise_Min(continuation, exercise) == Min(continuation, exercise)

\* std::max(continuation, exercise).
EarlyExercise(continuation, exercise) == Max(continuation, exercise)

\* A node value that takes the early exercise whatever the exercise type.
NodeValue_AlwaysExercise(is_american, continuation, exercise) ==
    EarlyExercise(continuation, exercise)

\* The value stored for a node.
NodeValue(is_american, continuation, exercise) ==
    IF is_american THEN EarlyExercise(continuation, exercise) ELSE continuation

NoValues == [x \in ExerciseType |-> <<>>]
NoNpv == [x \in ExerciseType |-> 0]

\* dt = T / steps_.
TimeStep(in) == Fraction(in.T, in.steps)

\* A theta tree laid over the whole maturity T.
ThetaTimeStep_FullMaturity(in) == Fraction(in.T, in.steps - 1)

\* dt_theta = T_minus_dt / steps_minus_1, with T_minus_dt = T - dt.
ThetaTimeStep(in) ==
    Fraction(in.T * TimeStep(in).den - TimeStep(in).num,
             TimeStep(in).den * (in.steps - 1))

\* The theta tree: its number of steps and its time step, if (steps_ > 1).
NoThetaTree == [built |-> FALSE, steps |-> 0, dt |-> Fraction(0, 1)]
ThetaTree(in) ==
    IF in.steps > 1
    THEN [built |-> TRUE, steps |-> in.steps - 1, dt |-> ThetaTimeStep(in)]
    ELSE NoThetaTree

InitTree ==
    /\ CallIdle
    /\ mc = Unused /\ shared = Unused /\ reg = Unused
    /\ curve = Unused /\ bond = Unused
    /\ gens = Unused /\ pde = Unused /\ obj = Unused
    /\ tree \in {[pc |-> "visit", in |-> x, i |-> x.steps, j |-> 0,
                  values |-> NoValues, step |-> <<>>, npv |-> NoNpv,
                  theta |-> NoThetaTree, outcome |-> "none"] :
                 x \in TreeInputs}

treeFrame == <<callVars, mc, shared, reg, curve, bond, gens, pde, obj>>

\* The probabilities fail the test: the visit throws.
TreeReject ==
    /\ tree.pc = "visit"
    /\ ~ProbabilitiesOk(tree.in)
    /\ tree' = [tree EXCEPT !.pc = "done", !.outcome = "InvalidInput"]
    /\ UNCHANGED treeFrame

\* The probabilities pass: `values` is filled with the payoffs at maturity.
TreeTerminal ==
    /\ tree.pc = "visit"
    /\ ProbabilitiesOk(tree.in)
    /\ tree' = [tree EXCEPT !.pc = "induction",
                            !.values = [x \in ExerciseType |-> TerminalValues(tree.in)],
                            !.step = [k \in 0..LastIndex(tree.in) |-> tree.in.steps],
                            !.i = tree.in.steps - 1,
                            !.j = FirstNode(tree.in, tree.in.steps - 1)]
    /\ UNCHANGED treeFrame

\* One turn of the inner loop: node j of step i is valued in place.
TreeNode ==
    /\ tree.pc = "induction"
    /\ tree.i >= 0
    /\ LET in == tree.in
           idx == Index(in, tree.j)
           last == tree.j = tree.i
       IN tree' = [tree EXCEPT
               !.values = [x \in ExerciseType |->
                   [tree.values[x] EXCEPT ![idx] =
                       NodeValue(x = "American",
                                 Continuation(in, tree.values[x], idx),
                                 Exercise(in, tree.i, tree.j))]],
               !.step = [tree.step EXCEPT ![idx] = tree.i],
               !.i = IF last THEN tree.i - 1 ELSE tree.i,
               !.j = IF last THEN FirstNode(in, tree.i - 1) ELSE tree.j + 1]
    /\ UNCHANGED treeFrame

\* The loops are over: the value at the root is the price.
TreeRoot ==
    /\ tree.pc = "induction"
    /\ tree.i < 0
    /\ tree' = [tree EXCEPT
            !.pc = "theta",
            !.npv = [x \in ExerciseType |->
                        tree.in.notional * tree.values[x][Index(tree.in, 0)]]]
    /\ UNCHANGED treeFrame

\* The theta tree is laid out if (steps_ > 1), and the result is stored.
TreeTheta ==
    /\ tree.pc = "theta"
    /\ tree' = [tree EXCEPT !.pc = "done", !.outcome = "Success",
                            !.theta = ThetaTree(tree.in)]
    /\ UNCHANGED treeFrame

NextTree == TreeReject \/ TreeTerminal \/ TreeNode \/ TreeRoot \/ TreeTheta

SpecTree == InitTree /\ [][NextTree]_vars

\* C18. For identical inputs and the same number of steps the American
\* value is at least the European value at every node of the binomial and of
\* the trinomial tree, at every moment of the backward induction, and so is
\* the NPV the engine returns.
C18_AmericanAtLeastEuropean ==
    /\ \A k \in DOMAIN tree.values["American"] :
           tree.values["American"][k] >= tree.values["European"][k]
    /\ tree.npv["American"] >= tree.npv["European"]

\* A trinomial valuation of more than one step has returned an American
\* price strictly above the European one.
C18_Witness ==
    /\ tree.pc = "done" /\ tree.outcome = "Success"
    /\ tree.in.kind = "trinomial" /\ tree.in.steps > 1
    /\ tree.npv["American"] > tree.npv["European"]

(***************************************************************************)
(* discount_curve.cpp: a tabulated DiscountCurve is constructed and asked  *)
(* for discount(t).  The value returned is kept as the expression the code *)
(* evaluates: a factor returned as it is, or exp((1-w)*log(df1) +          *)
(* w*log(df2)) with its operands; exp and log are exact inverses of each   *)
(* other (testBonds.cpp compares prices to 1e-10).                         *)
(***************************************************************************)
MaxCurveKnots == 3   \* longest table of a constructed curve

\* Sample knot times, and the times discount is asked for: before, at,
\* between and after them.
KnotTimes == {0, 2, 4, 6}
QueryTimes == (0 - 1)..7
\* Sample discount factors.
KnotFactors == {0, 1, 2}

Tables(S) == UNION {[1..n -> S] : n \in 0..MaxCurveKnots}

\* A factor returned as it is.
Factor(d) == [kind |-> "factor", lo |-> d, hi |-> d, wnum |-> 0, wden |-> 1]

\* std::exp(-flat_rate_ * t).
FlatFactor(t) == [kind |-> "flat", lo |-> 0, hi |-> 0, wnum |-> t, wden |-> 1]

\* The position, counted from 1, of the first element of ts greater than t,
\* and Len(ts) + 1 if there is none.
upper_bound(ts, t) ==
    IF \E i \in 1..Len(ts) : ts[i] > t
    THEN CHOOSE i \in 1..Len(ts) :
             ts[i] > t /\ \A k \in 1..(i - 1) : ~(ts[k] > t)
    ELSE Len(ts) + 1

\* A weight measured from the upper knot.
Weight_FromUpperKnot(t, t1, t2) == [num |-> t2 - t, den |-> t2 - t1]

\* w = (t - t1) / (t2 - t1).
Weight(t, t1, t2) == [num |-> t - t1, den |-> t2 - t1]

\* DiscountCurve::discount of a curve holding times_ = ts and dfs_ = ds.
discount(use_flat_rate, ts, ds, t) ==
    IF t <= 0 THEN Factor(1)
    ELSE IF use_flat_rate \/ Len(ts) = 0 THEN FlatFactor(t)
    ELSE IF t <= ts[1] THEN Factor(ds[1])
    ELSE IF t >= ts[Len(ts)] THEN Factor(ds[Len(ds)])
    ELSE LET idx == upper_bound(ts, t)
             w == Weight(t, ts[idx - 1], ts[idx])
         IN  [kind |-> "loglinear", lo |-> ds[idx - 1], hi |-> ds[idx],
              wnum |-> w.num, wden |-> w.den]

NotAsked == [asked |-> FALSE, t |-> 0, value |-> Factor(0)]

InitCurve ==
    /\ CallIdle
    /\ mc = Unused /\ shared = Unused /\ reg = Unused
    /\ tree = Unused /\ bond = Unused
    /\ gens = Unused /\ pde = Unused /\ obj = Unused
    /\ curve \in {[pc |-> "constructor", times |-> ts, dfs |-> ds, query |-> NotAsked] :
                  ts \in Tables(KnotTimes), ds \in Tables(KnotFactors)}

curveFrame == <<callVars, mc, shared, reg, tree, bond, gens, pde, obj>>

\* DiscountCurve(times, discount_factors): validate_curve throws.
CurveRejected ==
    /\ curve.pc = "constructor"
    /\ validate_curve(curve.times, curve.dfs) # "ok"
    /\ curve' = [curve EXCEPT !.pc = "InvalidInput"]
    /\ UNCHANGED curveFrame

\* DiscountCurve(times, discount_factors): validate_curve returns.
CurveBuilt ==
    /\ curve.pc = "constructor"
    /\ validate_curve(curve.times, curve.dfs) = "ok"
    /\ curve' = [curve EXCEPT !.pc = "built"]
    /\ UNCHANGED curveFrame

\* A call of discount(t) on the constructed curve.
CurveDiscount ==
    /\ curve.pc = "built"
    /\ \E t \in QueryTimes :
           curve' = [curve EXCEPT !.query =
                        [asked |-> TRUE, t |-> t,
                         value |-> discount(FALSE, curve.times, curve.dfs, t)]]
    /\ UNCHANGED curveFrame

NextCurve == CurveRejected \/ CurveBuilt \/ CurveDiscount

SpecCurve == InitCurve /\ [][NextCurve]_vars

\* The expression v evaluates to the factor d: it is d returned as it is, or
\* a log-linear mean that puts all its weight on d.
IsFactor(v, d) ==
    \/ v.kind = "factor" /\ v.lo = d
    \/ /\ v.kind = "loglinear"
       /\ \/ v.wnum = 0 /\ v.lo = d
          \/ v.wnum = v.wden /\ v.hi = d
          \/ v.lo = d /\ v.hi = d

\* C19. On a tabulated curve discount(t) is 1 for t <= 0, the first factor
\* for 0 < t <= first knot, the last factor for t >= last knot, the
\* tabulated factor df_i at every knot t_i, and for t strictly between two
\* neighbouring knots it is computed from the factors of exactly these two
\* knots.
C19_DiscountOnTable ==
    (curve.pc = "built" /\ curve.query.asked) =>
        LET ts == curve.times
            ds == curve.dfs
            t == curve.query.t
            v == curve.query.value
            n == Len(ts)
        IN  /\ t <= 0 => v = Factor(1)
            /\ (0 < t /\ t <= ts[1]) => v = Factor(ds[1])
            /\ (0 < t /\ t >= ts[n]) => v = Factor(ds[n])
            /\ \A i \in 1..n : t = ts[i] => IsFactor(v, ds[i])
            /\ \A i \in 1..(n - 1) :
                   (ts[i] < t /\ t < ts[i + 1]) =>
                       v.kind = "loglinear" /\ v.lo = ds[i] /\ v.hi = ds[i + 1]

\* discount was asked at an interior knot of a table of three knots with
\* three different neighbours.
C19_Witness ==
    /\ curve.pc = "built" /\ curve.query.asked
    /\ Len(curve.times) >= 3
    /\ curve.query.t = curve.times[2]
    /\ curve.dfs[1] # curve.dfs[2] /\ curve.dfs[2] # curve.dfs[3]
    /\ curve.query.value.kind = "loglinear"

(***************************************************************************)
(* bonds.cpp: FlatRateBondAnalyticEngine::visit(FixedRateBond), one turn   *)
(* of the coupon loop at a time.  A maturity is a multiple of 1/TimeDen    *)
(* of a year; times and amounts are kept as fractions num/den, and every   *)
(* term added to the price is recorded with its amount, its time and the   *)
(* discounting it gets.                                                    *)
(***************************************************************************)
TimeDen == 4        \* maturities are multiples of 1/TimeDen
MaxMaturity == 6    \* the longest maturity, in units of 1/TimeDen
MaxFrequency == 4   \* coupon_frequency ranges over 0..MaxFrequency

\* What the visit reads of the bond and the context: maturity in units of
\* 1/TimeDen, has_curve for ctx_.market.discount being set.
BondInputs ==
    [maturity : 0..MaxMaturity, coupon_frequency : 0..MaxFrequency,
     notional : 0..2, coupon_rate : (0 - 1)..1, has_curve : BOOLEAN]

\* validate(const FixedRateBond &).
validate_fixed_rate(in) ==
    IF ~(in.maturity > 0) THEN "InvalidInput"
    ELSE IF ~(in.notional # 0) THEN "InvalidInput"
    ELSE IF ~(in.coupon_rate >= 0) THEN "InvalidInput"
    ELSE IF in.coupon_frequency < 1 THEN "InvalidInput"
    ELSE "ok"

\* std::round of num/den, den > 0: to the nearest integer, halves away from
\* zero.
round(num, den) ==
    IF num >= 0 THEN (2 * num + den) \div (2 * den)
    ELSE 0 - ((2 * (0 - num) + den) \div (2 * den))

\* n = std::max(1, static_cast<int>(std::round(T * freq))).
CouponCount(in) == Max(1, round(in.maturity * in.coupon_frequency, TimeDen))

\* dt = T / n, in years.
CouponPeriod(in, n) == Fraction(in.maturity, TimeDen * n)

\* coupon = notional * coupon_rate * dt.
CouponAmount(in, n) ==
    Fraction(in.notional * in.coupon_rate * CouponPeriod(in, n).num, CouponPeriod(in, n).den)

\* t = dt * i.
CouponTime(in, n, i) == Fraction(CouponPeriod(in, n).num * i, CouponPeriod(in, n).den)

\* The lambda discount: the curve if there is one, the flat rate if not.
Discounting(in) == IF in.has_curve THEN "curve" ELSE "flat"

\* amount * discount(t), as a term of the price.
Term(in, amount, t) == [amount |-> amount, t |-> t, by |-> Discounting(in)]

\* A coupon loop that stops one turn early.
MoreCoupons_Exclusive(i, n) == i < n

\* The test of the coupon loop.
MoreCoupons(i, n) == i <= n

InitBond ==
    /\ CallIdle
    /\ mc = Unused /\ shared = Unused /\ reg = Unused
    /\ tree = Unused /\ curve = Unused
    /\ gens = Unused /\ pde = Unused /\ obj = Unused
    /\ bond \in {[pc |-> "visit", in |-> x, n |-> 0, i |-> 0, pv_coupons |-> <<>>,
                  pv_principal |-> <<>>, outcome |-> "none"] : x \in BondInputs}

bondFrame == <<callVars, mc, shared, reg, tree, curve, gens, pde, obj>>

\* validate throws.
BondReject ==
    /\ bond.pc = "visit"
    /\ validate_fixed_rate(bond.in) # "ok"
    /\ bond' = [bond EXCEPT !.pc = "done", !.outcome = "InvalidInput"]
    /\ UNCHANGED bondFrame

\* validate returns: n is fixed and the loop starts at i = 1.
BondSchedule ==
    /\ bond.pc = "visit"
    /\ validate_fixed_rate(bond.in) = "ok"
    /\ bond' = [bond EXCEPT !.pc = "loop", !.n = CouponCount(bond.in), !.i = 1]
    /\ UNCHANGED bondFrame

\* One turn of the loop: pv_coupons += coupon * discount(t).
BondCoupon ==
    /\ bond.pc = "loop"
    /\ MoreCoupons(bond.i, bond.n)
    /\ bond' = [bond EXCEPT
            !.pv_coupons = Append(@, Term(bond.in, CouponAmount(bond.in, bond.n),
                                          CouponTime(bond.in, bond.n, bond.i))),
            !.i = @ + 1]
    /\ UNCHANGED bondFrame

\* After the loop: pv_principal = notional * discount(T), and the result is
\* stored.
BondPrincipal ==
    /\ bond.pc = "loop"
    /\ ~MoreCoupons(bond.i, bond.n)
    /\ bond' = [bond EXCEPT
            !.pc = "done", !.outcome = "Success",
            !.pv_principal = <<Term(bond.in, Fraction(bond.in.notional, 1),
                                    Fraction(bond.in.maturity, TimeDen))>>]
    /\ UNCHANGED bondFrame

NextBond == BondReject \/ BondSchedule \/ BondCoupon \/ BondPrincipal

SpecBond == InitBond /\ [][NextBond]_vars

\* Two fractions of the same value.
SameValue(a, b) == a.num * b.den = b.num * a.den

\* k is x = num/den rounded to the nearest integer, x >= 0: k - 1/2 <= x < k + 1/2.
IsRounded(k, num, den) ==
    (2 * k - 1) * den <= 2 * num /\ 2 * num < (2 * k + 1) * den

\* C20. A fixed-rate bond priced with Success has had exactly
\* n = max(1, round(T*frequency)) coupons discounted, coupon i of amount
\* notional*coupon_rate*(T/n) at time i*T/n, and the notional discounted
\* once, at T; the last coupon falls on T.  While the loop runs, the coupons
\* discounted so far are the first of these.
C20_CouponSchedule ==
    LET in == bond.in
        T == Fraction(in.maturity, TimeDen)
        x == in.maturity * in.coupon_frequency
        n == IF 2 * x < 3 * TimeDen THEN 1
             ELSE CHOOSE k \in 1..(x + 1) : IsRounded(k, x, TimeDen)
        cs == bond.pv_coupons
    IN  /\ bond.pc = "loop" => Len(cs) <= n
        /\ bond.pc \in {"loop", "done"} =>
               \A i \in 1..Len(cs) :
                   /\ SameValue(cs[i].t, Fraction(i * in.maturity, TimeDen * n))
                   /\ SameValue(cs[i].amount,
                                Fraction(in.notional * in.coupon_rate * in.maturity,
                                         TimeDen * n))
        /\ (bond.pc = "done" /\ bond.outcome = "Success") =>
               /\ Len(cs) = n
               /\ SameValue(cs[n].t, T)
               /\ Len(bond.pv_principal) = 1
               /\ bond.pv_principal[1].amount = Fraction(in.notional, 1)
               /\ SameValue(bond.pv_principal[1].t, T)
               /\ \A i \in 1..n : cs[i].by = bond.pv_principal[1].by

\* A bond whose T*frequency is a half (rounded away from zero) has been
\* priced with several coupons.
C20_Witness ==
    /\ bond.pc = "done" /\ bond.outcome = "Success"
    /\ 2 * bond.in.maturity * bond.in.coupon_frequency = 5 * TimeDen
    /\ Len(bond.pv_coupons) = 3
    /\ bond.in.coupon_rate > 0

\* A turn of the inner loop of the backward induction is about to run.
AtNode == tree.pc = "induction" /\ tree.i >= 0

\* C22. In the trinomial backward induction the three operands read for
\* step i, node j are step-(i+1) values (none has been overwritten with a
\* step-i value in the same sweep), and the value written is the discounted
\* expectation of the three, replaced by its maximum with the payoff at the
\* node if and only if the exercise is American.
C22_TrinomialInduction ==
    [][(AtNode /\ tree.in.kind = "trinomial") =>
          LET in == tree.in
              idx == tree.j + in.steps
          IN  /\ tree.step[idx + 1] = tree.i + 1
              /\ tree.step[idx] = tree.i + 1
              /\ tree.step[idx - 1] = tree.i + 1
              /\ \A x \in ExerciseType :
                    LET v == tree.values[x]
                        c == Rounded(in.dfn * (in.pu * v[idx + 1] + Pm(in) * v[idx]
                                               + in.pd * v[idx - 1]), DfDen * ProbDen)
                        e == Exercise(in, tree.i, tree.j)
                    IN  tree'.values[x][idx] = IF x = "American" THEN Max(c, e) ELSE c
      ]_vars

\* C23. In the binomial backward induction the value written for step i,
\* node j is df*(p*V(i+1,j+1) + (1-p)*V(i+1,j)), both operands being
\* step-(i+1) values, replaced by its maximum with the payoff at the node if
\* and only if the exercise is American; the price is the value left at the
\* root.
C23_BinomialInduction ==
    [][tree.in.kind = "binomial" =>
          /\ AtNode =>
                LET in == tree.in
                    idx == tree.j
                IN  /\ tree.step[idx + 1] = tree.i + 1
                    /\ tree.step[idx] = tree.i + 1
                    /\ tree'.step[idx] = tree.i
                    /\ \A x \in ExerciseType :
                          LET v == tree.values[x]
                              c == Rounded(in.dfn * (in.pu * v[idx + 1]
                                                     + (ProbDen - in.pu) * v[idx]),
                                           DfDen * ProbDen)
                              e == Exercise(in, tree.i, tree.j)
                          IN  tree'.values[x][idx] =
                                  IF x = "American" THEN Max(c, e) ELSE c
          /\ (tree.pc = "induction" /\ tree'.pc = "theta") =>
                /\ \A k \in 0..tree.in.steps : tree.step[k] = k
                /\ \A x \in ExerciseType :
                      tree'.npv[x] = tree.in.notional * tree.values[x][0]
      ]_vars

\* A binomial valuation of several steps has returned, the early exercise
\* having raised the American price above the European one.
C23_Witness ==
    /\ tree.pc = "done" /\ tree.outcome = "Success"
    /\ tree.in.kind = "binomial" /\ tree.in.steps > 1
    /\ tree.npv["American"] > tree.npv["European"]
    /\ tree.npv["European"] > 0

\* A numerator of a probability outside [0,1].
OutOfBounds(pn) == pn < 0 \/ pn > ProbDen

\* C26. When p (binomial) or one of p_u, p_m, p_d (trinomial) is outside
\* [0,1] the visit ends in InvalidInput before any tree value is computed:
\* no element of `values` and no NPV has been written; and with all of them
\* inside [0,1] this test rejects nothing.
C26_ProbabilityTestFirst ==
    LET in == tree.in
        bad == IF in.kind = "binomial" THEN OutOfBounds(in.pu)
               ELSE OutOfBounds(in.pu) \/ OutOfBounds(ProbDen - in.pu - in.pd)
                    \/ OutOfBounds(in.pd)
    IN  tree.pc # "visit" =>
            IF bad
            THEN /\ tree.pc = "done" /\ tree.outcome = "InvalidInput"
                 /\ tree.values = NoValues /\ tree.step = <<>> /\ tree.npv = NoNpv
            ELSE tree.outcome # "InvalidInput"

\* A trinomial visit was rejected for p_m alone: p_u and p_d are inside
\* [0,1].
C26_Witness ==
    /\ tree.pc = "done" /\ tree.outcome = "InvalidInput"
    /\ tree.in.kind = "trinomial"
    /\ ~OutOfBounds(tree.in.pu) /\ ~OutOfBounds(tree.in.pd)
    /\ Pm(tree.in) < 0

\* The fraction a is greater than the fraction b, both denominators positive.
Greater(a, b) == a.num * b.den > b.num * a.den

\* The statement of C27 as the specification has it: with tree_steps > 1
\* the theta tree has one step fewer than the base tree and a time step
\* strictly larger than dt = T/tree_steps.
C27_ThetaStepLarger ==
    (tree.pc = "done" /\ tree.outcome = "Success" /\ tree.in.steps > 1) =>
        /\ tree.theta.built
        /\ tree.theta.steps = tree.in.steps - 1
        /\ Greater(tree.theta.dt, Fraction(tree.in.T, tree.in.steps))

\* C27. With tree_steps > 1 the theta tree of the binomial and of the
\* trinomial engine has one step fewer than the base tree and the same time
\* step dt = T/tree_steps: it spans the maturity T - dt.  With tree_steps = 1
\* there is no theta tree.
C27_ThetaSameStep ==
    (tree.pc = "done" /\ tree.outcome = "Success") =>
        IF tree.in.steps > 1
        THEN /\ tree.theta.built
             /\ tree.theta.steps = tree.in.steps - 1
             /\ SameValue(tree.theta.dt, Fraction(tree.in.T, tree.in.steps))
             /\ SameValue(Fraction(tree.theta.dt.num * tree.theta.steps, tree.theta.dt.den),
                          Fraction(tree.in.T * tree.in.steps - tree.in.T, tree.in.steps))
        ELSE ~tree.theta.built

\* A visit with several steps has laid out its theta tree.
C27_Witness ==
    /\ tree.pc = "done" /\ tree.outcome = "Success"
    /\ tree.in.steps > 1 /\ tree.theta.built
    /\ tree.theta.steps >= 1

(***************************************************************************)
(* utils/rng.hpp: two Pcg32 generators are built from the same seed and    *)
(* stream id, and drawn from, in any order.                                *)
(***************************************************************************)
MaxDraws == 2   \* calls of operator() on each generator

\* 2^64 - 1 and 2^63.
AllOnes64 == [k \in 1..8 |-> 255]
TopBit64 == [k \in 1..8 |-> IF k = 8 THEN 128 ELSE 0]

SeedVals == {U64(0), U64(1), U64(42), AllOnes64}
StreamVals == {U64(0), U64(1), TopBit64, AllOnes64}

Generators == 1..2

\* The members before the constructor body: state = 0, inc = 0.
NotConstructed == [built |-> FALSE, rng |-> NoRng, outs |-> <<>>]

InitRng ==
    /\ CallIdle
    /\ mc = Unused /\ shared = Unused /\ reg = Unused
    /\ tree = Unused /\ curve = Unused /\ bond = Unused
    /\ pde = Unused /\ obj = Unused
    /\ gens \in {[seed |-> s, stream_id |-> i, g |-> [k \in Generators |-> NotConstructed]] :
                 s \in SeedVals, i \in StreamVals}

rngFrame == <<callVars, mc, shared, reg, tree, curve, bond, pde, obj>>

\* Pcg32 g(seed, stream_id), or RngFactory(seed).make(stream_id).
RngConstruct(k) ==
    /\ ~gens.g[k].built
    /\ gens' = [gens EXCEPT !.g[k].built = TRUE,
                            !.g[k].rng = RngFactoryMake(gens.seed, gens.stream_id)]
    /\ UNCHANGED rngFrame

\* g(): one call of operator().
RngDraw(k) ==
    /\ gens.g[k].built
    /\ Len(gens.g[k].outs) < MaxDraws
    /\ gens' = [gens EXCEPT !.g[k].rng = PcgNext(gens.g[k].rng).rng,
                            !.g[k].outs = Append(@, PcgNext(gens.g[k].rng).out)]
    /\ UNCHANGED rngFrame

NextRng == \E k \in Generators : RngConstruct(k) \/ RngDraw(k)

SpecRng == InitRng /\ [][NextRng]_vars

\* (2 * stream_id + 1) mod 2^64.
StreamSelector(stream_id) == Add64(Add64(stream_id, stream_id), U64(1))

\* (state * 6364136223846793005 + inc) mod 2^64.
Advanced(state, inc) == Add64(Mul64(state, PcgMultiplier), inc)

\* C28. A constructed Pcg32 has inc = (2*stream_id + 1) mod 2^64, which is
\* odd, in every state; the constructor leaves the state of: zero, one
\* advance, plus the seed, one more advance; every draw advances the state
\* by state*6364136223846793005 + inc and leaves inc alone; and two
\* generators of the same (seed, stream_id) that have drawn as often have
\* produced the same outputs and hold the same state.
C28_PcgStreamAndSeeding ==
    /\ [](\A k \in Generators :
             gens.g[k].built =>
                 /\ gens.g[k].rng.inc = StreamSelector(gens.stream_id)
                 /\ gens.g[k].rng.inc[1] % 2 = 1)
    /\ [](\A k, m \in Generators :
             (gens.g[k].built /\ gens.g[m].built
              /\ Len(gens.g[k].outs) = Len(gens.g[m].outs)) =>
                 gens.g[k].outs = gens.g[m].outs /\ gens.g[k].rng = gens.g[m].rng)
    /\ [][\A k \in Generators :
             /\ (~gens.g[k].built /\ gens'.g[k].built) =>
                    LET inc == StreamSelector(gens.stream_id)
                        seeded == Add64(Advanced(U64(0), inc), gens.seed)
                    IN  gens'.g[k].rng.state = Advanced(seeded, inc)
             /\ (gens.g[k].built /\ gens'.g[k] # gens.g[k]) =>
                    /\ gens'.g[k].rng.state =
                           Advanced(gens.g[k].rng.state, gens.g[k].rng.inc)
                    /\ gens'.g[k].rng.inc = gens.g[k].rng.inc
                    /\ Len(gens'.g[k].outs) = Len(gens.g[k].outs) + 1
       ]_vars

\* Both generators were built with a stream id whose doubling wraps around
\* 2^64 and have drawn twice.
C28_Witness ==
    /\ gens.stream_id = AllOnes64
    /\ gens.seed = AllOnes64
    /\ \A k \in Generators : gens.g[k].built /\ Len(gens.g[k].outs) = 2
    /\ gens.g[1].outs[1] # gens.g[1].outs[2]

\* C30. In both Monte Carlo visits every iteration increments n once before
\* its Welford updates and updates every accumulator with that n, so the
\* k-th iteration updates with n = k >= 1; a visit returns with n = mc_paths
\* (Asian, and vanilla without antithetic) or n = floor(mc_paths/2) +
\* (mc_paths mod 2) (vanilla with antithetic), and with standard errors of 0
\* when n <= 1.
C30_SampleCount ==
    \A c \in Calls :
        /\ \A k \in 1..Len(mc[c].loc.paths) :
               \A a \in Accumulators : mc[c].loc.paths[k].n_val[a] = k
        /\ (mc[c].pc = "done" /\ mc[c].res.status = "Success") =>
               LET par == mc[c].loc.par
               IN  /\ mc[c].res.n =
                          IF par.engine = "BSEuroVanillaMCEngine" /\ par.mc_antithetic
                          THEN (par.mc_paths \div 2) + (par.mc_paths % 2)
                          ELSE par.mc_paths
                   /\ mc[c].res.n <= 1 => mc[c].res.std_errors = "zero"

(***************************************************************************)
(* C25: for otherwise valid inputs with volatility sigma = 0, no engine    *)
(* raises an error: a pricing visit that passed its validation, got its    *)
(* model interface and read spot > 0 and sigma = 0 ends in Success.        *)
(***************************************************************************)
ZeroVolVisit ==
    /\ pc = "done"
    /\ eng.read # NotRead
    /\ eng.read.spot > 0
    /\ eng.read.vol = 0

C25_ZeroVolNeverThrows == ZeroVolVisit => outcome = "Success"

(***************************************************************************)
(* pde/european_vanilla.cpp: PDEEuropeanVanillaEngine::visit(VanillaOption)*)
(* after its validation.  The visit runs the solver three times: the base  *)
(* run, then the spot-up and the spot-down runs of the delta/gamma block.  *)
(* Each run fills its terminal values node by node, then steps back in     *)
(* time N_ times.  A spot of a grid is kept exactly as coef * exp(x_j),    *)
(* x_j = x_min + j * dx, coef a fraction; exp and log are exact inverses,  *)
(* so exp(x - log(S0)) is exp(x) / S0.  A terminal value is kept as the    *)
(* payoff expression: the spot and the strike it was evaluated with.       *)
(***************************************************************************)
MaxSpaceSteps == 3   \* pde_space_steps M_ ranges over 2..MaxSpaceSteps
MaxTimeSteps == 2    \* pde_time_steps N_ ranges over 1..MaxTimeSteps
MaxStrike == 2       \* the strike K ranges over 1..MaxStrike
MaxSpot == 2         \* the spot S0 ranges over 1..MaxSpot

\* The percentage of the spot bump: dS = S0 * 0.01.
BumpDen == 100

PdeRuns == <<"base", "up", "down">>

PdeInputs ==
    [K : 1..MaxStrike, S0 : 1..MaxSpot, M : 2..MaxSpaceSteps, N : 1..MaxTimeSteps,
     type : OptionType]

\* The spot coef * exp(x_j).
GridSpot(coef, j) == [coef |-> coef, node |-> j]

\* S0 + dS in the up run, S0 - dS in the down run.
BumpedS0(in, run) ==
    IF run = "up" THEN Fraction(BumpDen * in.S0 + in.S0, BumpDen)
    ELSE Fraction(BumpDen * in.S0 - in.S0, BumpDen)

\* A spot multiplied by (S0 +- dS) / S0.
Rescaled(S, in, run) ==
    GridSpot(Fraction(S.coef.num * BumpedS0(in, run).num,
                      S.coef.den * BumpedS0(in, run).den * in.S0), S.node)

\* The spot of node j where a run evaluates its terminal payoff:
\* S_grid[j] = K * exp(x) in the base run,
\* S = (S0 +- dS) * exp(x - log(S0)) in the bumped runs.
TerminalSpot(in, run, j) ==
    IF run = "base" THEN GridSpot(Fraction(in.K, 1), j)
    ELSE GridSpot(Fraction(BumpedS0(in, run).num, BumpedS0(in, run).den * in.S0), j)

\* (*opt.payoff)(S): max(S - K, 0) or max(K - S, 0) with the payoff's strike.
PayoffAt(in, S) == [at |-> S, strike |-> in.K, type |-> in.type]

\* The spot in the upper boundary value d[M_] of a call: S_grid[M_] in the
\* base run, S_grid[M_] * (S0 +- dS) / S0 in the bumped runs; a put has
\* d[M_] = 0.
NoSpot == GridSpot(Fraction(0, 1), 0)

UpperBoundary(in, run) ==
    IF in.type # "Call" THEN NoSpot
    ELSE IF run = "base" THEN TerminalSpot(in, "base", in.M)
    ELSE Rescaled(TerminalSpot(in, "base", in.M), in, run)

NoRun == [V |-> <<>>, upper |-> NoSpot, solved |-> 0]

InitPde ==
    /\ CallIdle
    /\ mc = Unused /\ shared = Unused /\ reg = Unused
    /\ tree = Unused /\ curve = Unused /\ bond = Unused
    /\ gens = Unused /\ obj = Unused
    /\ pde \in {[in |-> x, pc |-> "terminal", run |-> 1,
                 runs |-> [r \in 1..Len(PdeRuns) |-> NoRun], greeks |-> {}] :
                x \in PdeInputs}

pdeFrame == <<callVars, mc, shared, reg, tree, curve, bond, gens, obj>>

\* One turn of a terminal loop (j = 0..M_): the payoff at the node's spot.
\* After the last node the run goes on to its time loop.
PdeTerminal ==
    /\ pde.pc = "terminal"
    /\ LET j == Len(pde.runs[pde.run].V)
           V == Append(pde.runs[pde.run].V,
                       PayoffAt(pde.in, TerminalSpot(pde.in, PdeRuns[pde.run], j)))
       IN  pde' = [pde EXCEPT !.runs[pde.run].V = V,
                              !.pc = IF j = pde.in.M THEN "solve" ELSE "terminal"]
    /\ UNCHANGED pdeFrame

\* One turn of a time loop (n = N_ - 1 down to 0): the right-hand side with
\* its boundary values, the matrix, solve_tridiagonal.  After the last turn
\* the next run starts, or the Greeks are differenced.
PdeSolve ==
    /\ pde.pc = "solve"
    /\ LET n == pde.runs[pde.run].solved + 1 IN
       pde' = [pde EXCEPT !.runs[pde.run].solved = n,
                          !.runs[pde.run].upper = UpperBoundary(pde.in, PdeRuns[pde.run]),
                          !.pc = IF n < pde.in.N THEN "solve"
                                 ELSE IF pde.run < Len(PdeRuns) THEN "terminal"
                                 ELSE "greeks",
                          !.run = IF n < pde.in.N \/ pde.run = Len(PdeRuns)
                                  THEN pde.run ELSE pde.run + 1]
    /\ UNCHANGED pdeFrame

\* out.greeks.delta, out.greeks.gamma, res_ = out.
PdeGreeks ==
    /\ pde.pc = "greeks"
    /\ pde' = [pde EXCEPT !.pc = "done", !.greeks = {"delta", "gamma"}]
    /\ UNCHANGED pdeFrame

NextPde == PdeTerminal \/ PdeSolve \/ PdeGreeks

SpecPde == InitPde /\ [][NextPde]_vars

\* Two spots of the same value.
SameSpot(S1, S2) == S1.node = S2.node /\ SameValue(S1.coef, S2.coef)

(***************************************************************************)
(* C24: in the delta/gamma re-runs the terminal payoff is evaluated, with  *)
(* the unchanged strike K, at the base grid spots K * exp(x_j) rescaled by *)
(* (S0 +- 0.01 * S0) / S0.                                                 *)
(***************************************************************************)
C24_BumpedGridRescaled ==
    \A r \in 2..Len(PdeRuns) :
        \A k \in 1..Len(pde.runs[r].V) :
            /\ pde.runs[r].V[k].strike = pde.in.K
            /\ SameSpot(pde.runs[r].V[k].at,
                        Rescaled(pde.runs[1].V[k].at, pde.in, PdeRuns[r]))

(***************************************************************************)
(* engines/base.hpp, base.cpp, pricers/pricer.hpp: one engine object and   *)
(* its member res_ over several visits.  Every visit that prices builds a  *)
(* local `PricingResult out;`, fills it and ends with `res_ = out;` (the   *)
(* only statement of the engines that writes res_); a visit that throws    *)
(* has not reached that statement.  results() returns res_.                *)
(***************************************************************************)
MaxVisits == 3   \* visits made on one engine object

\* A default-initialised PricingResult: npv = 0.0, the optionals empty,
\* mc_std_error indeterminate.
DefaultResults == {PricingResult("zero", NoGreeks, e) : e \in IndeterminateReal}

\* The engine objects a caller can construct, with the fields of the model
\* they hold.
EngineObjects ==
    UNION {{[eng |-> Engine(cls, def, ctx), market |-> m] :
               def \in Defs(cls), m \in ModelParams,
               ctx \in {c \in DirectContexts(cls) : EngineCtor(cls, c) = "ok"}} :
           cls \in EngineClass}

\* res_ after a visit that kept in res_ every Greek it did not assign.
Stored_MemberWise(old, out) ==
    PricingResult(out.npv,
                  [f \in GreekFields |-> IF out.greeks[f] # "absent"
                                         THEN out.greeks[f] ELSE old.greeks[f]],
                  out.mc_std_error)

\* res_ = out: the stored result after the last statement of a visit.
Stored(old, out) == out

InitObj ==
    /\ CallIdle
    /\ mc = Unused /\ shared = Unused /\ reg = Unused
    /\ tree = Unused /\ curve = Unused /\ bond = Unused
    /\ gens = Unused /\ pde = Unused
    /\ obj \in {[eng |-> e.eng, market |-> e.market, res_ |-> r, last |-> r, earlier |-> r,
                 visits |-> 0, succeeded |-> 0, outcome |-> "none", returned |-> NotReturned] :
                e \in EngineObjects, r \in DefaultResults}

objFrame == <<callVars, mc, shared, reg, tree, curve, bond, gens, pde>>

\* price(inst, engine) on the object: inst.accept(engine), then
\* engine.results().  obj.last keeps the local `out` of the visit when the
\* visit returned, obj.earlier what res_ held before that visit.
ObjPrice ==
    /\ obj.visits < MaxVisits
    /\ \E i \in DirectInstruments :
         LET v == visit(obj.eng.cls, obj.eng.def, obj.eng.ctx, i) IN
         /\ v # "no_implementation"
         /\ \E o \in (IF v = "Success" THEN Valuation(obj.eng.cls, obj.market) ELSE {v}) :
              IF o = "Success"
              THEN \E out \in Results(obj.eng.cls, obj.eng.def, obj.eng.ctx, i, obj.market) :
                      obj' = [obj EXCEPT !.res_ = Stored(obj.res_, out),
                                         !.last = out,
                                         !.earlier = obj.res_,
                                         !.visits = obj.visits + 1,
                                         !.succeeded = obj.succeeded + 1,
                                         !.outcome = o,
                                         !.returned = Stored(obj.res_, out)]
              ELSE obj' = [obj EXCEPT !.visits = obj.visits + 1,
                                      !.outcome = o,
                                      !.returned = NotReturned]
    /\ UNCHANGED objFrame

\* engine.results() called on its own.
ObjResults ==
    /\ obj.returned # obj.res_
    /\ obj' = [obj EXCEPT !.returned = obj.res_, !.outcome = "none"]
    /\ UNCHANGED objFrame

NextObj == ObjPrice \/ ObjResults

SpecObj == InitObj /\ [][NextObj]_vars

(***************************************************************************)
(* C29: for any sequence of visits on one engine object, results() equals  *)
(* the complete output of the most recent visit that returned normally, or *)
(* the initial empty result if none did: a visit that throws leaves the    *)
(* stored result unchanged and a successful visit replaces it as a whole.  *)
(***************************************************************************)
C29_LastNormalVisit ==
    /\ obj.res_ = obj.last
    /\ obj.succeeded = 0 => obj.res_ \in DefaultResults
    /\ obj.outcome = "Success" => obj.returned = obj.last

\* Three visits on one object: two returned and one threw, the stored
\* result held Greeks before the most recent visit, and that visit returned
\* a result with none.
C29_Witness ==
    /\ obj.visits = 3
    /\ obj.succeeded = 2
    /\ obj.outcome = "Success"
    /\ obj.earlier.greeks # NoGreeks
    /\ obj.res_.greeks = NoGreeks

(***************************************************************************)
(* SpecLive: Spec with the scheduling of a call.  A pricing call is        *)
(* single-threaded, takes no lock and waits on nothing, so a call that has *)
(* been submitted goes on running: each of its steps, once enabled, is     *)
(* eventually taken.  Whether another call is ever submitted or            *)
(* constructed is the caller's choice and carries no fairness.             *)
(***************************************************************************)
CallStep == Lookup \/ Factory \/ Dispatch \/ Return

SpecLive == Init /\ [][Next]_vars /\ WF_vars(CallStep)

\* A call through the registry is in progress.
RegistryCall == route = "registry" /\ pc # "idle"

\* Every call through the registry comes to its end.
RegistryCallEnds == RegistryCall ~> (pc = "done")

(***************************************************************************)
(* C21: every pricing call through the registry reaches a terminal state   *)
(* (Success, InvalidInput or UnsupportedInstrument) after finitely many    *)
(* steps, without waiting on anything.                                     *)
(***************************************************************************)
C21_ReachesTerminalState ==
    RegistryCall ~> (pc = "done" /\ outcome \in TerminalStates)

====
